---- MODULE Spec2Model ----
(***************************************************************************)
(* react-exe: the CodeExecutor component (index.tsx), its executeCode      *)
(* pipeline and the CDN package resolver (utils/cdn-resolver.ts).          *)
(*                                                                         *)
(* Abstractions.  A source file is a record of the facts the pipeline      *)
(* tests its text for (the packages it imports, the security patterns its  *)
(* text matches, whether the component it exports raises when rendered).   *)
(* A JavaScript object whose identity matters (a dependency map, a module, *)
(* a promise, a window) carries an identity field.  One React commit (the  *)
(* render, the effect cleanups and the effect bodies, in source order) is  *)
(* one step; state updates queued by effects and by asynchronous callbacks *)
(* are rendered by a later Rerender step.                                  *)
(***************************************************************************)
EXTENDS Integers, Sequences, FiniteSets, TLC

VARIABLES
  \* ---- utils/cdn-resolver.ts
  GLOBAL_CDN_CACHE,     \* package -> promise id (0: no entry)
  SANDBOX_CDN_CACHE,    \* set of [win, pkg, promise]: the per-window maps
  promises,             \* the promises resolvePackageFromCDN created
  fetches,              \* the importModuleFromUrl calls, in order
  clears,               \* how many times clearCDNCache ran
  calls,                \* direct calls of resolvePackageFromCDN (SpecCDN)
  \* ---- index.tsx: props
  code, dependencies, autoResolvePackage, sandbox, securityPatterns,
  onError,              \* the identity of the callback the host passes
  \* ---- index.tsx: state hooks
  executionResult, resolvedDependencies, isLoading, iframeReady,
  \* ---- index.tsx: refs and memo
  prevCodeRef, prevDependenciesRef, prevSandboxContextRef,
  iframeRef, iframeRootRef, iframeReactRootRef, hasChanges,
  \* ---- React bookkeeping
  phase,                \* "init", "live", "unmounted"
  rendered,             \* the props and state the last render saw
  runs,                 \* the resolveDependencies invocations
  activeRun,            \* the run whose cleanup the effect holds (0: none)
  nextFrame,            \* the next iframe window identity
  loadedFrames,         \* iframe windows whose load event was handled
  roots,                \* the roots createRoot has made: mount node, unmount calls
  changes,              \* prop changes so far
  \* ---- observations
  lastExec,             \* the latest executeCode call
  lastCommit,           \* the latest commit: its autoResolvePackage, imports issued
  nFailures,            \* terminal failures of a fatal class so far
  nOnError,             \* onError invocations so far
  nBypass               \* handleBypassSecurity invocations so far

cdnVars == <<GLOBAL_CDN_CACHE, SANDBOX_CDN_CACHE, promises, fetches, clears>>
propVars == <<code, dependencies, autoResolvePackage, sandbox, securityPatterns,
              onError>>
stateVars == <<executionResult, resolvedDependencies, isLoading, iframeReady>>
refVars == <<prevCodeRef, prevDependenciesRef, prevSandboxContextRef,
             iframeRef, iframeRootRef, iframeReactRootRef, hasChanges>>
reactVars == <<phase, rendered, runs, activeRun, nextFrame, loadedFrames, roots,
               changes>>
obsVars == <<lastExec, lastCommit, nFailures, nOnError, nBypass>>
compVars == <<propVars, stateVars, refVars, reactVars, obsVars>>
vars == <<cdnVars, calls, compVars>>

(***************************************************************************)
(* Bounds.                                                                 *)
(***************************************************************************)
MaxFrames == 2    \* sandbox windows a direct caller may name
MaxCalls == 2     \* direct resolvePackageFromCDN calls
MaxClears == 1    \* clearCDNCache calls
MaxChanges == 1   \* prop changes by the host (a teardown counts as one)
MaxExecs == 4     \* executeCode calls that are told apart
MaxFailures == 6  \* terminal failures that are counted
MaxStack == 4     \* nested getModule calls the call stack holds
MaxImports == 2   \* import specifiers of local files in one file

Pkgs == {"p1", "p2"}
\* a dependency key written with a wildcard, and an import source under it
WildKey == "@/components/ui/*"
WildImport == "@/components/ui/button"
\* the order in which import sources appear in a file
PkgOrder == <<"p1", "p2", WildImport, "./missing", "a.b", "a-b">>

\* window identities: the host window, "no window" (null / undefined), and
\* the iframe windows 1, 2, ...
HostWindow == 0
NoWindow == 0 - 1

(***************************************************************************)
(* utils/cdn-resolver.ts                                                   *)
(***************************************************************************)
NoModule == [pkg |-> "", realm |-> NoWindow, registry |-> ""]
NoCdnError == [pkg |-> "", primary |-> 0, fallback |-> 0]

\* the resolver's state as one value, so that a call is a function of it
Cdn == [g |-> GLOBAL_CDN_CACHE, s |-> SANDBOX_CDN_CACHE, p |-> promises,
        f |-> fetches]

\* getCache: which map a target window selects.  The global map is named by
\* HostWindow, a window's own map by the window.
getCache_shared(targetWindow) == HostWindow
getCache(targetWindow) ==
  IF targetWindow = NoWindow \/ targetWindow = HostWindow
  THEN HostWindow
  ELSE targetWindow

\* cache.has / cache.get: the promise id, 0 when there is no entry
cacheGet(cdn, scope, packageName) ==
  IF scope = HostWindow
  THEN cdn.g[packageName]
  ELSE IF \E e \in cdn.s : e.win = scope /\ e.pkg = packageName
       THEN (CHOOSE e \in cdn.s : e.win = scope /\ e.pkg = packageName).promise
       ELSE 0

\* cache.set
cacheSet_single(cdn, scope, packageName, id) ==
  IF scope = HostWindow
  THEN [cdn EXCEPT !.g = [p \in Pkgs |-> IF p = packageName THEN id ELSE 0]]
  ELSE [cdn EXCEPT !.s = {e \in @ : e.win # scope}
                          \cup {[win |-> scope, pkg |-> packageName, promise |-> id]}]
cacheSet(cdn, scope, packageName, id) ==
  IF scope = HostWindow
  THEN [cdn EXCEPT !.g[packageName] = id]
  ELSE [cdn EXCEPT !.s = {e \in @ : ~(e.win = scope /\ e.pkg = packageName)}
                          \cup {[win |-> scope, pkg |-> packageName, promise |-> id]}]

\* importModuleFromUrl: the realm the module is loaded into
importRealm(targetWindow) ==
  IF targetWindow = NoWindow \/ targetWindow = HostWindow
  THEN HostWindow
  ELSE targetWindow

\* one importModuleFromUrl call against a registry.  Inside a sandbox window
\* the module is captured through window[globalVar]; `global` tells whether
\* that property exists on the window.
importModuleFromUrl(cdn, registry, id, packageName, targetWindow) ==
  [cdn EXCEPT !.f = Append(@, [promise |-> id, registry |-> registry,
                               pkg |-> packageName,
                               realm |-> importRealm(targetWindow),
                               st |-> "pending", global |-> FALSE])]

\* importInsideWindow: the injected module script has evaluated
moduleScript(cdn, i) == [cdn EXCEPT !.f[i].global = TRUE]

\* importInsideWindow: cleanup() in the load and error listeners
cleanup_keepsGlobal(cdn, i) == cdn
cleanupGlobal(cdn, i) == [cdn EXCEPT !.f[i].global = FALSE]

\* importInsideWindow: the load listener finds exports iff the script set
\* the global; a host import() settles either way
canSettle(f, ok) == f.realm = HostWindow \/ ok = f.global

\* resolvePackageFromCDN up to its first await: a cache hit returns the
\* cached promise; a miss (resolve_uncached) creates the promise, issues the
\* primary import and caches the promise.  Returns the new resolver state and
\* the promise id.
resolve_uncached(cdn, packageName, targetWindow) ==
  LET id == Len(cdn.p) + 1
      withP == [cdn EXCEPT !.p = Append(@, [pkg |-> packageName,
                                            win |-> targetWindow,
                                            gen |-> clears,
                                            st |-> "pending",
                                            module |-> NoModule,
                                            primaryError |-> 0,
                                            error |-> NoCdnError])]
      withF == importModuleFromUrl(withP, "esm.sh", id, packageName, targetWindow)
  IN [cdn |-> cacheSet(withF, getCache(targetWindow), packageName, id),
      promise |-> id]
resolvePackageFromCDN_noCache(cdn, packageName, targetWindow) ==
  resolve_uncached(cdn, packageName, targetWindow)
resolvePackageFromCDN_retryFailed(cdn, packageName, targetWindow) ==
  LET hit == cacheGet(cdn, getCache(targetWindow), packageName)
  IN IF hit # 0 /\ cdn.p[hit].st # "rejected"
     THEN [cdn |-> cdn, promise |-> hit]
     ELSE resolve_uncached(cdn, packageName, targetWindow)
resolvePackageFromCDN(cdn, packageName, targetWindow) ==
  LET hit == cacheGet(cdn, getCache(targetWindow), packageName)
  IN IF hit # 0
     THEN [cdn |-> cdn, promise |-> hit]
     ELSE resolve_uncached(cdn, packageName, targetWindow)

\* the continuation of the promise when import i settles
settle_retryAgain(cdn, i, ok) ==
  LET f == cdn.f[i]
      p == cdn.p[f.promise]
      done == cleanupGlobal([cdn EXCEPT !.f[i].st = IF ok THEN "ok" ELSE "fail"], i)
  IN IF ok
     THEN [done EXCEPT !.p[f.promise].st = "fulfilled",
                       !.p[f.promise].module =
                          [pkg |-> f.pkg, realm |-> f.realm, registry |-> f.registry]]
     ELSE importModuleFromUrl([done EXCEPT !.p[f.promise].primaryError = i],
                              "jsdelivr", f.promise, f.pkg, p.win)
settle(cdn, i, ok) ==
  LET f == cdn.f[i]
      p == cdn.p[f.promise]
      done == cleanupGlobal([cdn EXCEPT !.f[i].st = IF ok THEN "ok" ELSE "fail"], i)
  IN IF ok
     THEN [done EXCEPT !.p[f.promise].st = "fulfilled",
                       !.p[f.promise].module =
                          [pkg |-> f.pkg, realm |-> f.realm, registry |-> f.registry]]
     ELSE IF f.registry = "esm.sh"
     THEN importModuleFromUrl([done EXCEPT !.p[f.promise].primaryError = i],
                              "jsdelivr", f.promise, f.pkg, p.win)
     ELSE [done EXCEPT !.p[f.promise].st = "rejected",
                       !.p[f.promise].error =
                          [pkg |-> f.pkg, primary |-> p.primaryError, fallback |-> i]]

setCdn(cdn) ==
  /\ GLOBAL_CDN_CACHE' = cdn.g
  /\ SANDBOX_CDN_CACHE' = cdn.s
  /\ promises' = cdn.p
  /\ fetches' = cdn.f


\* clearCDNCache
clearCDNCache ==
  /\ GLOBAL_CDN_CACHE' = [p \in Pkgs |-> 0]
  /\ SANDBOX_CDN_CACHE' = {}
  /\ clears' = clears + 1
  /\ UNCHANGED <<promises, fetches>>

(***************************************************************************)
(* index.tsx: the data                                                     *)
(***************************************************************************)
defaultSecurityPatterns ==
  <<"document.cookie", "window.document.cookie", "eval(", "Function(",
    "document.write", "document.location">>
customSecurityPatterns == <<"localStorage">>

\* config.securityPatterns: the caller's list when one is given, else the
\* default list
PatternConfigs == {[given |-> FALSE, patterns |-> <<>>],
                   [given |-> TRUE, patterns |-> customSecurityPatterns]}
securityPatternsOf(config) ==
  IF config.given THEN config.patterns ELSE defaultSecurityPatterns

\* source files: what the pipeline can observe of their text.
\*   imports        packages imported with at least one specifier
\*   hits           the security patterns the text matches
\*   defaultExport  the form of the default export: "function X" (export
\*                  default function X(){..}), "X" (export default X;),
\*                  "anonymous" (export default () => ..), "none"
\*   invocable      whether the default-exported value is a function
\*   throws         whether that function raises when rendered
\*   reaches        the properties of its window through which the file's
\*                  top-level code writes to a document
\*   locals         its imports of local files, in order: the source and the
\*                  imported name ("default" for a default import)
\*   named          the names it exports with export const/function/class
\*   blank          whether the text is the empty string
\*   listed         the names it exports with export { a, b }
\*   forms          the specifiers of its package imports that are no
\*                  default import: the source and the imported name ("*"
\*                  for a namespace import)
plainFile == [name |-> "index.tsx", isEntry |-> TRUE, imports |-> {},
              hits |-> {}, defaultExport |-> "function X", invocable |-> TRUE,
              throws |-> FALSE, reaches |-> {}, locals |-> <<>>,
              named |-> {}, blank |-> FALSE, listed |-> {}, forms |-> {}]
padFile == [plainFile EXCEPT !.imports = {"p1"}]
twoFile == [plainFile EXCEPT !.imports = {"p1", "p2"}]
throwFile == [plainFile EXCEPT !.throws = TRUE]
blankFile == [plainFile EXCEPT !.defaultExport = "none", !.invocable = FALSE,
                              !.blank = TRUE]
wildFile == [plainFile EXCEPT !.imports = {WildImport}]
\* window.parent.document.title = ".." / window.frameElement.ownerDocument..
parentFile == [plainFile EXCEPT !.reaches = {"parent"}]
frameElementFile == [plainFile EXCEPT !.reaches = {"frameElement"}]
\* a diamond: A imports B and C, which both import D
dFile == [plainFile EXCEPT !.name = "D.tsx", !.isEntry = FALSE,
                           !.defaultExport = "none", !.invocable = FALSE,
                           !.named = {"shared"}]
bFile == [dFile EXCEPT !.name = "B.tsx", !.named = {"b"},
                       !.locals = <<[from |-> "./D", name |-> "shared"]>>]
cFile == [dFile EXCEPT !.name = "C.tsx", !.named = {"c"},
                       !.locals = <<[from |-> "./D", name |-> "shared"]>>]
aFile == [plainFile EXCEPT !.name = "A.tsx",
                           !.locals = <<[from |-> "./B", name |-> "b"],
                                        [from |-> "./C", name |-> "c"]>>]
\* import { Greeting } from './Greeting', and an import of a name that
\* Greeting.tsx does not export
greetingFile == [plainFile EXCEPT !.name = "Greeting.tsx", !.isEntry = FALSE,
                                  !.defaultExport = "none", !.invocable = FALSE,
                                  !.named = {"Greeting"}]
\* function Greeting() {...}  export { Greeting };
listedGreetingFile == [greetingFile EXCEPT !.named = {}, !.listed = {"Greeting"}]
greetAppFile == [plainFile EXCEPT !.name = "App.tsx",
                   !.locals = <<[from |-> "./Greeting", name |-> "Greeting"]>>]
unseenAppFile == [plainFile EXCEPT !.name = "App.tsx",
                    !.locals = <<[from |-> "./Greeting", name |-> "Farewell"]>>]
\* a cycle: A imports B, and B imports A
cycAFile == [plainFile EXCEPT !.name = "A.tsx",
                              !.locals = <<[from |-> "./B", name |-> "default"]>>]
cycBFile == [plainFile EXCEPT !.name = "B.tsx", !.isEntry = FALSE,
                              !.locals = <<[from |-> "./A", name |-> "default"]>>]
\* a file with a default and a named export, imported twice
bothFile == [plainFile EXCEPT !.name = "Both.tsx", !.isEntry = FALSE,
                              !.named = {"helper"}]
mainFile == [plainFile EXCEPT !.name = "Main.tsx",
                              !.locals = <<[from |-> "./Both", name |-> "default"],
                                           [from |-> "./Both", name |-> "helper"]>>]
\* a second file flagged as entry
mainEntryFile == [plainFile EXCEPT !.name = "Main.tsx"]
\* import Both from 'Both': a file of the set imported without "./"
bareMainFile == [plainFile EXCEPT !.name = "Main.tsx",
                                  !.locals = <<[from |-> "Both", name |-> "default"]>>]
\* import helper from './missing': a relative import of no file of the set
relFile == [plainFile EXCEPT !.imports = {"./missing"}]
\* import * as P from 'p1', and import { pad } from 'p1'
starFile == [plainFile EXCEPT !.imports = {"p1"},
                              !.forms = {[from |-> "p1", name |-> "*"]}]
namedImportFile == [plainFile EXCEPT !.imports = {"p1"},
                                     !.forms = {[from |-> "p1", name |-> "pad"]}]
\* import x from 'a.b'; import y from 'a-b'
dashFile == [plainFile EXCEPT !.imports = {"a.b", "a-b"}]
identFile == [plainFile EXCEPT !.defaultExport = "X"]
valueFile == [plainFile EXCEPT !.defaultExport = "X", !.invocable = FALSE]
arrowFile == [plainFile EXCEPT !.defaultExport = "anonymous"]
namedOnlyFile == [plainFile EXCEPT !.defaultExport = "none", !.invocable = FALSE]
evalFile == [plainFile EXCEPT !.hits = {"eval("}]
storageFile == [plainFile EXCEPT !.hits = {"localStorage"}]
appFile == [name |-> "App.tsx", isEntry |-> TRUE, imports |-> {"p1"},
            hits |-> {}, defaultExport |-> "function X", invocable |-> TRUE,
            throws |-> FALSE, reaches |-> {}, locals |-> <<>>,
              named |-> {}, blank |-> FALSE, listed |-> {}, forms |-> {}]
cookieFile == [name |-> "Util.tsx", isEntry |-> FALSE, imports |-> {},
               hits |-> {"document.cookie", "window.document.cookie"},
               defaultExport |-> "none", invocable |-> FALSE,
               throws |-> FALSE, reaches |-> {}, locals |-> <<>>,
              named |-> {}, blank |-> FALSE, listed |-> {}, forms |-> {}]

\* the code prop: a string (one file, index.tsx) or an array of files
StringCode(file) == [kind |-> "string", ref |-> 0, files |-> <<file>>]
ArrayCode(ref, files) == [kind |-> "array", ref |-> ref, files |-> files]
NoCode == [kind |-> "undefined", ref |-> 0, files |-> <<>>]
\* the array the host passes when it builds an equal array again; a string
\* has no identity of its own
freshCopy(c) == IF c.kind = "array" THEN [c EXCEPT !.ref = 3 - @] ELSE c
Codes == {StringCode(plainFile), StringCode(padFile), StringCode(twoFile),
          StringCode(throwFile), ArrayCode(1, <<appFile, cookieFile>>)}

\* dependency maps: an object identity and a binding per package
NoBinding == [origin |-> "none", realm |-> NoWindow, registry |-> ""]
CallerBinding == [origin |-> "caller", realm |-> HostWindow, registry |-> ""]
ModuleBinding(m) == [origin |-> "cdn", realm |-> m.realm, registry |-> m.registry]
EmptyDeps == [ref |-> 0, map |-> [p \in Pkgs |-> NoBinding]]
PadDeps == [ref |-> 1, map |-> [p \in Pkgs |-> IF p = "p1" THEN CallerBinding
                                                ELSE NoBinding]]
NoDeps == [ref |-> 0 - 1, map |-> [p \in Pkgs |-> NoBinding]]
DepsChoices == {EmptyDeps, PadDeps}
\* a config without dependencies: the default `dependencies = {}` is a new
\* object in every render; DefaultDeps(k) are these objects, whose
\* identities are reused after DefaultIds renders
DefaultIds == 4
DefaultDeps(k) == [ref |-> 20 + k, map |-> [p \in Pkgs |-> NoBinding]]
isDefault(d) == d.ref >= 20
defaulted(d) == IF isDefault(d) THEN DefaultDeps((d.ref - 20 + 1) % DefaultIds)
                ELSE d
WildDeps == [ref |-> 2, map |-> [k \in Pkgs \cup {WildKey} |->
                                 IF k = WildKey THEN CallerBinding ELSE NoBinding]]
\* a map with two keys that differ in one punctuation character
DashDeps == [ref |-> 3, map |-> [k \in Pkgs \cup {"a.b", "a-b"} |->
                                 IF k \in Pkgs THEN NoBinding ELSE CallerBinding]]
keys(deps) == {k \in DOMAIN deps.map : deps.map[k] # NoBinding}

NoError == [kind |-> "none", names |-> {}]
NoComponent == [kind |-> "null", throws |-> FALSE, realm |-> NoWindow]
initialExecutionResult ==
  [Component |-> NoComponent, error |-> NoError, forbiddenPatterns |-> FALSE]

(***************************************************************************)
(* index.tsx: isCodeDifferent, isDependenciesDifferent                     *)
(***************************************************************************)
\* !prevCode: undefined, or the empty string
falsy(c) == c.kind = "undefined" \/ (c.kind = "string" /\ c.files[1].blank)
isCodeDifferent(prevCode, newCode) ==
  IF falsy(prevCode) THEN TRUE
  ELSE IF prevCode.kind = "string" /\ newCode.kind = "string"
  THEN prevCode.files # newCode.files
  ELSE IF prevCode.kind = "array" /\ newCode.kind = "array"
  THEN \/ Len(prevCode.files) # Len(newCode.files)
       \/ \E i \in 1..Len(prevCode.files) :
            \/ prevCode.files[i].name # newCode.files[i].name
            \/ prevCode.files[i] # newCode.files[i]
  ELSE TRUE

\* an undefined previous map defaults to {}
isDependenciesDifferent(prevDeps, newDeps) ==
  \/ Cardinality(keys(prevDeps)) # Cardinality(keys(newDeps))
  \/ \E k \in keys(prevDeps) : prevDeps.map[k] # newDeps.map[k]

sandboxContextOf(s) == IF s THEN "sandbox" ELSE "parent"

\* the useMemo body of hasChanges
computeHasChanges(c, resolved, s) ==
  \/ isCodeDifferent(prevCodeRef, c)
  \/ isDependenciesDifferent(prevDependenciesRef, resolved)
  \/ prevSandboxContextRef # sandboxContextOf(s)

(***************************************************************************)
(* index.tsx: executeCode, with transformMultipleFiles and the generated   *)
(* factory of utils/cdn-resolver.ts                                        *)
(***************************************************************************)
\* the security check: the first file, and in it the first pattern, that match
scanHits(files, patterns) ==
  {<<i, j>> \in (1..Len(files)) \X (1..Len(patterns)) : patterns[j] \in files[i].hits}
scanFirst(files, patterns) ==
  CHOOSE h \in scanHits(files, patterns) :
    \A g \in scanHits(files, patterns) :
      h[1] < g[1] \/ (h[1] = g[1] /\ h[2] <= g[2])

\* the import visitor: the imports of a file that are neither provided nor,
\* with auto-resolution, left to the resolver
unresolvedImports(file, deps, autoResolve) ==
  IF autoResolve THEN {} ELSE file.imports \ keys(deps)
firstIn(S) == PkgOrder[CHOOSE i \in 1..Len(PkgOrder) :
                 /\ PkgOrder[i] \in S
                 /\ \A j \in 1..Len(PkgOrder) : PkgOrder[j] \in S => i <= j]

\* the message of the error the import visitor throws
moduleNotFound_anonymous(source, file) ==
  [kind |-> "moduleNotFound", names |-> {}]
moduleNotFound(source, file) ==
  [kind |-> "moduleNotFound", names |-> {source}]

\* transformMultipleFiles: the error it throws, NoError when it returns
transformMultipleFiles(files, deps, autoResolve) ==
  IF \E i \in 1..Len(files) : unresolvedImports(files[i], deps, autoResolve) # {}
  THEN LET i == CHOOSE k \in 1..Len(files) :
                  /\ unresolvedImports(files[k], deps, autoResolve) # {}
                  /\ \A l \in 1..(k - 1) :
                       unresolvedImports(files[l], deps, autoResolve) = {}
       IN moduleNotFound(firstIn(unresolvedImports(files[i], deps, autoResolve)),
                         files[i].name)
  ELSE NoError

\* the entry file: the first file flagged isEntry, else the first file
entryFile_first(files) == files[1]
entryFile(files) ==
  IF \E i \in 1..Len(files) : files[i].isEntry
  THEN files[CHOOSE i \in 1..Len(files) :
               files[i].isEntry /\ \A j \in 1..(i - 1) : ~files[j].isEntry]
  ELSE files[1]

\* removeDefaultExport: whether its regular expressions find the name of a
\* default export (an anonymous default export has none, and the export
\* visitor then removes the declaration)
removeDefaultExport_noName(file) == [exportedName |-> FALSE]
removeDefaultExport(file) ==
  [exportedName |-> file.defaultExport \in {"function X", "X"}]

\* normalizeFilename: without the extension and a leading "./"
normalizeFilename(filename) ==
  CASE filename \in {"index.tsx"} -> "index"
    [] filename \in {"App.tsx"} -> "App"
    [] filename \in {"Util.tsx"} -> "Util"
    [] filename \in {"A.tsx", "./A"} -> "A"
    [] filename \in {"B.tsx", "./B"} -> "B"
    [] filename \in {"C.tsx", "./C"} -> "C"
    [] filename \in {"D.tsx", "./D"} -> "D"
    [] filename \in {"Main.tsx"} -> "Main"
    [] filename \in {"Both.tsx", "./Both", "Both"} -> "Both"
    [] filename \in {"./missing"} -> "missing"
    [] filename \in {"Greeting.tsx", "./Greeting"} -> "Greeting"
    [] OTHER -> filename

\* the import visitor: every source a file imports from with a specifier
sourcesOf(file) ==
  file.imports \cup {file.locals[j].from : j \in 1..Len(file.locals)}
isLocalModule(files, source) ==
  \E i \in 1..Len(files) :
    normalizeFilename(files[i].name) = normalizeFilename(source)
\* the sources the visitor takes for external and not provided, which with
\* auto-resolution it leaves to the resolver ("Will attempt to resolve
\* from CDN")
leftToResolver(files, deps, autoResolve) ==
  IF autoResolve
  THEN {s \in UNION {sourcesOf(files[i]) : i \in 1..Len(files)} :
          ~isLocalModule(files, s) /\ s # "react" /\ s \notin keys(deps)}
  ELSE {}

\* the module definition generated for a file: the properties of the object
\* it returns.  exportsSetup sets exports.default and then replaces
\* module.exports by a copy; the named exports are set on `exports`
\* afterwards, and the definition returns module.exports.
\* the names the module definition copies onto `exports`: those found by
\* the declaration regex in the file's content
epilogueNamedExports(file) == file.named
moduleExports(file) ==
  IF removeDefaultExport(file).exportedName
  THEN {"default"}
  ELSE epilogueNamedExports(file)

\* the generated getModule, and the module code it runs (the rewritten
\* imports of the file, in order).  st holds moduleCache (cache), the
\* module codes run so far (ran), what each import statement received (got),
\* whether an exception is propagating (threw), the returned instance, the
\* module definitions entered so far (entered) and the nesting of the
\* getModule calls in progress (depth).
NoModules == [cache |-> {}, ran |-> <<>>, got |-> {}, threw |-> FALSE, ret |-> 0,
              entered |-> <<>>, depth |-> 0]
fileNamed(files, name) ==
  files[CHOOSE i \in 1..Len(files) : normalizeFilename(files[i].name) = name]
RECURSIVE instantiate(_, _, _, _)
RECURSIVE getModule(_, _, _, _)
RECURSIVE moduleCode(_, _, _, _, _)
moduleCode(files, deps, file, i, st) ==
  IF st.threw \/ i > Len(file.locals)
  THEN st
  ELSE LET from == normalizeFilename(file.locals[i].from)
           st1 == getModule(files, deps, from, st)
       IN IF st1.threw
          THEN st1
          ELSE moduleCode(files, deps, file, i + 1,
                          [st1 EXCEPT !.got = @ \cup
                             {[importer |-> file.name, from |-> from,
                               name |-> file.locals[i].name,
                               instance |-> st1.ret]}])
\* the miss branch of getModule: the module definition is called, and its
\* result is stored once it has returned.  A call nested deeper than the
\* stack allows raises a RangeError, which every frame rethrows.
instantiate(files, deps, name, st) ==
  IF ~\E i \in 1..Len(files) : normalizeFilename(files[i].name) = name
  THEN [st EXCEPT !.threw = TRUE]
  ELSE IF st.depth >= MaxStack
  THEN [st EXCEPT !.threw = TRUE]
  ELSE LET file == fileNamed(files, name)
           st0 == [st EXCEPT !.entered = Append(@, name), !.depth = @ + 1]
           st1 == IF file.imports \ keys(deps) # {}
                  THEN [st0 EXCEPT !.threw = TRUE]
                  ELSE moduleCode(files, deps, file, 1, st0)
       IN IF st1.threw
          THEN st1
          ELSE [st1 EXCEPT !.ran = Append(@, name),
                           !.cache = @ \cup {[name |-> name,
                                              instance |-> Len(st1.ran) + 1,
                                              exports |-> moduleExports(file)]},
                           !.ret = Len(st1.ran) + 1,
                           !.depth = st.depth]
getModule_noMemo(files, deps, name, st) == instantiate(files, deps, name, st)
getModule(files, deps, name, st) ==
  IF \E m \in st.cache : m.name = name
  THEN [st EXCEPT !.ret = (CHOOSE m \in st.cache : m.name = name).instance]
  ELSE instantiate(files, deps, name, st)

\* the factory's getModule(entryModuleName)
entryModule(files, deps) ==
  getModule(files, deps, normalizeFilename(entryFile(files).name), NoModules)

\* the generated factory: a module reads one variable per imported package,
\* and only the keys of the dependency map are declared; a read of an
\* undeclared one raises inside getModule.  exports.default is set when
\* removeDefaultExport found a name.  The factory returns the default export
\* when it is a function, and the ErrorComponent when getModule raised or the
\* export is no function.
factory(files, deps, realm) ==
  IF entryModule(files, deps).threw
  THEN [kind |-> "ErrorComponent", throws |-> FALSE, realm |-> realm]
  ELSE IF /\ removeDefaultExport(entryFile(files)).exportedName
          /\ entryFile(files).invocable
  THEN [kind |-> "entry", throws |-> entryFile(files).throws, realm |-> realm]
  ELSE [kind |-> "ErrorComponent", throws |-> FALSE, realm |-> realm]

\* pass 1: the ExportInfo of a file
exportInfoOf(file) ==
  [hasDefaultExport |-> removeDefaultExport(file).exportedName,
   namedExports |-> file.named \cup file.listed]

\* the file an import source names: normalizedModulePaths.get
moduleOf(files, source) == fileNamed(files, normalizeFilename(source))

\* the declaration the import visitor writes for a specifier of a local
\* import: what the local name reads
rewriteLocal_defaultOnly(source, imported) ==
  [call |-> "getModule", arg |-> normalizeFilename(source), prop |-> "default"]
rewriteLocal(source, imported) ==
  [call |-> "getModule", arg |-> normalizeFilename(source), prop |-> imported]

\* the declarations written for the local imports of the files, and the
\* 'may not be exported' warnings
localRewrites(files) ==
  {[importer |-> files[i].name, from |-> files[i].locals[j].from,
    name |-> files[i].locals[j].name,
    reads |-> rewriteLocal(files[i].locals[j].from, files[i].locals[j].name)] :
     <<i, j>> \in {<<k, l>> \in (1..Len(files)) \X (1..MaxImports) :
                     l <= Len(files[k].locals)}}
\* the first pass over files 1..n: exportInfo.set(file.name, ...) per file
pass1(files, n) ==
  [name \in {files[i].name : i \in 1..n} |->
     exportInfoOf(files[CHOOSE i \in 1..n :
                          /\ files[i].name = name
                          /\ \A j \in 1..n : files[j].name = name => j <= i])]
\* the exportInfo map the plugin is given when file i is transformed: the
\* second loop starts after the first has ended
exportInfoAt_onePass(files, i) == pass1(files, i)
exportInfoAt(files, i) == pass1(files, Len(files))
\* isNamedExport: moduleExportInfo && moduleExportInfo.namedExports.has(name)
isNamedExport(info, module, name) ==
  module \in DOMAIN info /\ name \in info[module].namedExports
localWarnings(files) ==
  {[importer |-> files[i].name, from |-> files[i].locals[j].from,
    name |-> files[i].locals[j].name] :
     <<i, j>> \in {<<k, l>> \in (1..Len(files)) \X (1..MaxImports) :
                     /\ l <= Len(files[k].locals)
                     /\ files[k].locals[l].name # "default"
                     /\ ~isNamedExport(exportInfoAt(files, k),
                                       moduleOf(files, files[k].locals[l].from).name,
                                       files[k].locals[l].name)}}

\* the characters of a dependency key or import source
chars(dep) ==
  CASE dep = "p1" -> <<"p", "1">>
    [] dep = "p2" -> <<"p", "2">>
    [] dep = "a.b" -> <<"a", ".", "b">>
    [] dep = "a-b" -> <<"a", "-", "b">>
    [] dep = "./missing" -> <<".", "/", "m", "i", "s", "s", "i", "n", "g">>
    [] dep = WildKey -> <<"@", "/", "c", "o", "m", "p", "o", "n", "e", "n", "t",
                         "s", "/", "u", "i", "/", "*">>
    [] dep = WildImport -> <<"@", "/", "c", "o", "m", "p", "o", "n", "e", "n",
                            "t", "s", "/", "u", "i", "/", "b", "u", "t", "t",
                            "o", "n">>
\* dep.replace(/[^a-zA-Z0-9_]/g, "_")
safeName(dep) ==
  [i \in 1..Len(chars(dep)) |->
     IF chars(dep)[i] \in {".", "-", "/", "@", "*"} THEN "_" ELSE chars(dep)[i]]

\* dependencyVars: one `const <safeName> = dependencies['<dep>']` per key
dependencyVars(deps) == {[var |-> safeName(d), key |-> d] : d \in keys(deps)}
\* new Function(transformedCode) raises a SyntaxError when a const is
\* declared twice
redeclared(deps) ==
  \E v, w \in dependencyVars(deps) : v # w /\ v.var = w.var

\* the specifiers of the package imports of a file
externalSpecs(file) ==
  {[from |-> p, name |-> "default"] :
     p \in {q \in file.imports : \A f \in file.forms : f.from # q}}
    \cup file.forms
\* the variable an external import reads: dependencyVarMap.get(source) || source
sourceVarName(source, deps, autoResolve) ==
  IF source \in keys(deps) \/ autoResolve THEN safeName(source) ELSE chars(source)
\* the declaration written for a specifier of an external import; a
\* namespace specifier gets none
rewriteExternal(source, imported, deps, autoResolve) ==
  [call |-> "var", arg |-> sourceVarName(source, deps, autoResolve),
   prop |-> IF imported = "default" THEN "" ELSE imported]
externalRewrites(files, deps, autoResolve) ==
  {[importer |-> files[i].name, from |-> sp.from, name |-> sp.name,
    reads |-> rewriteExternal(sp.from, sp.name, deps, autoResolve)] :
     <<i, sp>> \in {<<k, x>> \in (1..Len(files)) \X
                                  UNION {externalSpecs(files[l]) : l \in 1..Len(files)} :
                     x \in externalSpecs(files[k]) /\ x.name # "*"}}

\* what transformMultipleFiles did in a call that returned
NoOutput == [toResolve |-> {}, exportInfo |-> <<>>, rewrites |-> {},
             warnings |-> {}, dependencyVars |-> {}, copied |-> <<>>,
             seen |-> <<>>]
transformOutput(files, deps, autoResolve) ==
  LET info == pass1(files, Len(files))
  IN [toResolve |-> leftToResolver(files, deps, autoResolve),
      exportInfo |-> info,
      rewrites |-> localRewrites(files)
                     \cup externalRewrites(files, deps, autoResolve),
      dependencyVars |-> dependencyVars(deps),
      copied |-> [n \in DOMAIN info |->
                    epilogueNamedExports(
                      files[CHOOSE i \in 1..Len(files) : files[i].name = n])],
      seen |-> [i \in 1..Len(files) |-> DOMAIN exportInfoAt(files, i)],
      warnings |-> localWarnings(files)]
outputOf(ex, c, deps, autoResolve) ==
  IF ex.transformed /\ transformMultipleFiles(c.files, deps, autoResolve) = NoError
  THEN transformOutput(c.files, deps, autoResolve)
  ELSE NoOutput

\* what the factory call of an executeCode call did to the module registry
modulesOf(ex, c, deps) ==
  IF ex.result.Component # NoComponent THEN entryModule(c.files, deps) ELSE NoModules

\* the error transformMultipleFiles or the Function constructor raises
codeError(files, deps, autoResolve) ==
  IF transformMultipleFiles(files, deps, autoResolve) # NoError
  THEN transformMultipleFiles(files, deps, autoResolve)
  ELSE IF redeclared(deps)
  THEN [kind |-> "syntax", names |-> {}]
  ELSE NoError

\* executeCode: its result, and whether it reached transformMultipleFiles
executeCode_noScan(c, deps, patterns, bypassSecurity, autoResolve, sandboxWindow) ==
  LET files == c.files
      err == codeError(files, deps, autoResolve)
  IN IF err # NoError
     THEN [result |-> [Component |-> NoComponent, error |-> err,
                       forbiddenPatterns |-> FALSE],
           transformed |-> TRUE]
     ELSE [result |-> [Component |-> factory(files, deps, importRealm(sandboxWindow)),
                       error |-> NoError, forbiddenPatterns |-> FALSE],
           transformed |-> TRUE]
executeCode_transformFirst(c, deps, patterns, bypassSecurity, autoResolve, sandboxWindow) ==
  LET files == c.files
      err == codeError(files, deps, autoResolve)
  IN IF ~bypassSecurity /\ scanHits(files, patterns) # {}
     THEN [result |-> [Component |-> NoComponent,
                       error |-> [kind |-> "forbidden",
                                  names |-> {files[scanFirst(files, patterns)[1]].name,
                                             patterns[scanFirst(files, patterns)[2]]}],
                       forbiddenPatterns |-> TRUE],
           transformed |-> TRUE]
     ELSE IF err # NoError
     THEN [result |-> [Component |-> NoComponent, error |-> err,
                       forbiddenPatterns |-> FALSE],
           transformed |-> TRUE]
     ELSE [result |-> [Component |-> factory(files, deps, importRealm(sandboxWindow)),
                       error |-> NoError, forbiddenPatterns |-> FALSE],
           transformed |-> TRUE]
executeCode(c, deps, patterns, bypassSecurity, autoResolve, sandboxWindow) ==
  LET files == c.files
  IN IF ~bypassSecurity /\ scanHits(files, patterns) # {}
     THEN [result |-> [Component |-> NoComponent,
                       error |-> [kind |-> "forbidden",
                                  names |-> {files[scanFirst(files, patterns)[1]].name,
                                             patterns[scanFirst(files, patterns)[2]]}],
                       forbiddenPatterns |-> TRUE],
           transformed |-> FALSE]
     ELSE LET err == codeError(files, deps, autoResolve)
          IN IF err # NoError
             THEN [result |-> [Component |-> NoComponent, error |-> err,
                               forbiddenPatterns |-> FALSE],
                   transformed |-> TRUE]
             ELSE [result |-> [Component |-> factory(files, deps,
                                                     importRealm(sandboxWindow)),
                               error |-> NoError, forbiddenPatterns |-> FALSE],
                   transformed |-> TRUE]


(***************************************************************************)
(* index.tsx: the dependency-resolution effect                             *)
(***************************************************************************)
\* importPath.startsWith(".") || importPath.startsWith("/")
startsWithDotOrSlash(importPath) ==
  importPath \in {"./A", "./B", "./C", "./D", "./Both", "./missing", "./Greeting"}
\* the imports the effect's regular expression finds and the map lacks
missingDeps(c, deps) ==
  {p \in UNION {sourcesOf(c.files[i]) : i \in 1..Len(c.files)} :
     p # "react" /\ ~startsWithDotOrSlash(p) /\ p \notin keys(deps)}

setToSeq(S) == SelectSeq(PkgOrder, LAMBDA p : p \in S)

\* the resolvePackageFromCDN calls of resolveDependencies, made in turn
\* before the first await
RECURSIVE resolveAll(_, _, _, _)
resolveAll(cdn, todo, targetWindow, acc) ==
  IF todo = <<>>
  THEN [cdn |-> cdn, proms |-> acc]
  ELSE LET r == resolvePackageFromCDN(cdn, Head(todo), targetWindow)
       IN resolveAll(r.cdn, Tail(todo), targetWindow,
                     [acc EXCEPT ![Head(todo)] = r.promise])

\* the object identity of the copy { ...dependencies } run r makes
RunRef(r) == 10 + r

\* newDeps of a run once its promises have settled: the copy of the
\* dependencies plus every result that is not null
newDepsOf_allOrNothing(run, r, proms) ==
  [ref |-> RunRef(r),
   map |-> [p \in Pkgs |->
              IF /\ p \in run.missing
                 /\ \A q \in run.missing : proms[run.proms[q]].st = "fulfilled"
              THEN ModuleBinding(proms[run.proms[p]].module)
              ELSE run.dependencies.map[p]]]
newDepsOf_inPlace(run, r, proms) ==
  [ref |-> run.dependencies.ref,
   map |-> [p \in Pkgs |->
              IF p \in run.missing /\ proms[run.proms[p]].st = "fulfilled"
              THEN ModuleBinding(proms[run.proms[p]].module)
              ELSE run.dependencies.map[p]]]
newDepsOf(run, r, proms) ==
  [ref |-> RunRef(r),
   map |-> [p \in Pkgs |->
              IF p \in run.missing /\ proms[run.proms[p]].st = "fulfilled"
              THEN ModuleBinding(proms[run.proms[p]].module)
              ELSE run.dependencies.map[p]]]

\* the cleanup function the effect returns
cleanup(rs, r) == IF r = 0 THEN rs ELSE [rs EXCEPT ![r].cancelled = TRUE]

\* whether run r is past its Promise.all
settled(run, proms) ==
  \A p \in run.missing : proms[run.proms[p]].st # "pending"

(***************************************************************************)
(* index.tsx: renderInSandbox, cleanupSandbox                              *)
(***************************************************************************)
\* the mount node renderInSandbox picks: the remembered one, else the root
\* element of the frame's loaded document; 0 when there is none
mountNodeOf(frame, rootRef, loaded) ==
  IF rootRef # 0 THEN rootRef ELSE IF frame \in loaded THEN frame ELSE 0

\* createRoot(mountNode): a new root, mounted
createRoot(rs, mountNode) == Append(rs, [node |-> mountNode, unmounts |-> 0])

\* renderInSandbox(component): <<iframeRootRef, iframeReactRootRef, roots>>
\* after it; iframeReactRootRef holds a root by its index in roots, 0 for null
renderInSandbox(frame, rootRef, reactRoot, loaded, rs) ==
  IF frame = 0 \/ mountNodeOf(frame, rootRef, loaded) = 0
  THEN <<rootRef, reactRoot, rs>>
  ELSE IF reactRoot # 0
  THEN <<mountNodeOf(frame, rootRef, loaded), reactRoot, rs>>
  ELSE <<mountNodeOf(frame, rootRef, loaded), Len(rs) + 1,
         createRoot(rs, mountNodeOf(frame, rootRef, loaded))>>

\* cleanupSandbox: <<iframeReactRootRef, roots>> after it
cleanupSandbox_keepsRef(reactRoot, rs) ==
  IF reactRoot # 0
  THEN <<reactRoot, [rs EXCEPT ![reactRoot].unmounts = @ + 1]>>
  ELSE <<reactRoot, rs>>
cleanupSandbox(reactRoot, rs) ==
  IF reactRoot # 0
  THEN <<0, [rs EXCEPT ![reactRoot].unmounts = @ + 1]>>
  ELSE <<reactRoot, rs>>

\* terminal failures of a fatal class one execution produces
\* the count of failures stops at MaxFailures
tally(n) == IF n > MaxFailures THEN MaxFailures ELSE n
failuresOf(result, inSandboxRoot) ==
  (IF result.error.kind \in {"moduleNotFound"} THEN 1 ELSE 0)
  + (IF result.Component.kind = "ErrorComponent" THEN 1 ELSE 0)
  + (IF inSandboxRoot /\ result.Component.throws THEN 1 ELSE 0)

\* the number of the executeCode call, counted modulo MaxExecs
counted(n) == (n + 1) % MaxExecs

(***************************************************************************)
(* index.tsx: one commit of CodeExecutor with props c, d, a, s             *)
(***************************************************************************)
\* the guard of the execute effect
execGate(hc, loading, s, ready, frame) ==
  hc /\ ~loading /\ (s => ready /\ frame # 0)

CommitWith(c, d0, a, s, o) ==
  LET first == phase = "init"
      \* ---- the destructuring of config (after the first render, a
      \* missing dependencies gets a new default object)
      d == IF first THEN d0 ELSE defaulted(d0)
      \* ---- render
      memoStale == \/ first
                   \/ c # rendered.code
                   \/ resolvedDependencies # rendered.resolvedDependencies
                   \/ s # rendered.sandbox
      hc == IF memoStale THEN computeHasChanges(c, resolvedDependencies, s)
            ELSE hasChanges
      \* ---- commit: the iframe element is in the tree unless loading
      frame == IF s /\ ~isLoading
               THEN (IF iframeRef # 0 THEN iframeRef ELSE nextFrame)
               ELSE 0
      \* ---- the dependency-resolution effect
      resStale == \/ first
                  \/ c # rendered.code
                  \/ d # rendered.dependencies
                  \/ a # rendered.autoResolvePackage
                  \/ s # rendered.sandbox
                  \/ iframeReady # rendered.iframeReady
                  \/ hc # hasChanges
      missing == missingDeps(c, d)
      targetWindow == IF s /\ frame # 0 THEN frame ELSE NoWindow
      resKind == IF ~resStale THEN "skip"
                 ELSE IF ~hc THEN "return"
                 ELSE IF ~a \/ missing = {} THEN "setDeps"
                 ELSE IF s /\ (~iframeReady \/ targetWindow = NoWindow) THEN "defer"
                 ELSE "start"
      runsC == IF resStale THEN cleanup(runs, activeRun) ELSE runs
      rid == Len(runs) + 1
      resolved == resolveAll(Cdn, setToSeq(missing), targetWindow,
                             [p \in Pkgs |-> 0])
      cdn1 == IF resKind = "start" THEN resolved.cdn ELSE Cdn
      runs1 == IF resKind = "start"
               THEN Append(runsC, [code |-> c, dependencies |-> d, sandbox |-> s,
                                   win |-> targetWindow, missing |-> missing,
                                   proms |-> resolved.proms,
                                   cancelled |-> FALSE, done |-> FALSE,
                                   applied |-> FALSE])
               ELSE runsC
      active1 == IF ~resStale THEN activeRun
                 ELSE IF resKind = "start" THEN rid ELSE 0
      loading1 == IF resKind = "setDeps" THEN FALSE
                  ELSE IF resKind \in {"defer", "start"} THEN TRUE
                  ELSE isLoading
      resolved1 == IF resKind = "setDeps" THEN d ELSE resolvedDependencies
      \* ---- the effect on [sandbox]
      offRuns == (first \/ s # rendered.sandbox) /\ ~s
      ready1 == IF offRuns THEN FALSE ELSE iframeReady
      off == IF offRuns THEN cleanupSandbox(iframeReactRootRef, roots)
             ELSE <<iframeReactRootRef, roots>>
      reactRoot0 == off[1]
      roots0 == off[2]
      \* ---- the execute effect
      execStale == \/ first
                   \/ c # rendered.code
                   \/ resolvedDependencies # rendered.resolvedDependencies
                   \/ hc # hasChanges
                   \/ isLoading # rendered.isLoading
                   \/ a # rendered.autoResolvePackage
                   \/ s # rendered.sandbox
                   \/ iframeReady # rendered.iframeReady
                   \/ o # rendered.onError
      execRuns == execStale /\ execGate(hc, isLoading, s, iframeReady, frame)
      ex == executeCode(c, resolvedDependencies, securityPatterns, FALSE, a,
                        IF s THEN frame ELSE NoWindow)
      rendersInRoot == s /\ ex.result.Component # NoComponent
      refs1 == IF rendersInRoot
               THEN renderInSandbox(frame, iframeRootRef, reactRoot0, loadedFrames,
                                    roots0)
               ELSE <<iframeRootRef, cleanupSandbox(reactRoot0, roots0)[1],
                      cleanupSandbox(reactRoot0, roots0)[2]>>
      awaiting == IF active1 # 0 /\ ~runs1[active1].done
                  THEN {p \in runs1[active1].missing :
                          cdn1.p[runs1[active1].proms[p]].st = "pending"}
                  ELSE {}
  IN /\ setCdn(cdn1)
     /\ UNCHANGED <<clears, calls, securityPatterns>>
     /\ code' = c /\ dependencies' = d /\ onError' = o
     /\ autoResolvePackage' = a /\ sandbox' = s
     /\ phase' = "live"
     /\ rendered' = [code |-> c, dependencies |-> d, autoResolvePackage |-> a,
                     sandbox |-> s, onError |-> o, n |-> lastExec.n,
                     executionResult |-> executionResult,
                     resolvedDependencies |-> resolvedDependencies,
                     isLoading |-> isLoading, iframeReady |-> iframeReady]
     /\ hasChanges' = hc
     /\ iframeRef' = frame
     /\ nextFrame' = IF frame # 0 /\ iframeRef = 0 THEN nextFrame + 1 ELSE nextFrame
     /\ runs' = runs1
     /\ activeRun' = active1
     /\ isLoading' = loading1
     /\ resolvedDependencies' = resolved1
     /\ iframeReady' = ready1
     /\ lastCommit' = [autoResolvePackage |-> a,
                       issued |-> Len(cdn1.f) - Len(fetches)]
     /\ UNCHANGED <<loadedFrames, nOnError, nBypass>>
     /\ IF execRuns
        THEN /\ executionResult' = ex.result
             /\ prevCodeRef' = c
             /\ prevDependenciesRef' = resolvedDependencies
             /\ prevSandboxContextRef' = sandboxContextOf(s)
             /\ iframeRootRef' = IF s THEN refs1[1] ELSE iframeRootRef
             /\ iframeReactRootRef' = IF s THEN refs1[2] ELSE reactRoot0
             /\ roots' = IF s THEN refs1[3] ELSE roots0
             /\ lastExec' = [called |-> TRUE, code |-> c,
                             deps |-> resolvedDependencies,
                             patterns |-> securityPatterns, bypass |-> FALSE,
                             autoResolvePackage |-> a, sandbox |-> s,
                             result |-> ex.result, transformed |-> ex.transformed,
                             modules |-> modulesOf(ex, c, resolvedDependencies),
                             n |-> counted(lastExec.n),
                             out |-> outputOf(ex, c, resolvedDependencies, a),
                             awaiting |-> awaiting]
             /\ nFailures' = tally(nFailures + failuresOf(ex.result, s /\ refs1[2] # 0))
        ELSE /\ iframeReactRootRef' = reactRoot0
             /\ roots' = roots0
             /\ UNCHANGED <<executionResult, prevCodeRef, prevDependenciesRef,
                            prevSandboxContextRef, iframeRootRef, lastExec,
                            nFailures>>


\* a run whose promises have all settled resumes in a microtask, before
\* any other event is handled
Resuming == \E r \in 1..Len(runs) : ~runs[r].done /\ settled(runs[r], promises)

\* a state update is waiting for its render
Dirty ==
  /\ phase = "live"
  /\ <<executionResult, lastExec.n, resolvedDependencies, isLoading, iframeReady>>
       # <<rendered.executionResult, rendered.n, rendered.resolvedDependencies,
           rendered.isLoading, rendered.iframeReady>>

(***************************************************************************)
(* index.tsx: resolveDependencies after its await Promise.all              *)
(***************************************************************************)
\* whether the continuation writes setResolvedDependencies / setIsLoading
writesAfterAwait_ignoresCancelled(run) == TRUE
writesAfterAwait(run) == ~run.cancelled

(***************************************************************************)
(* The initial state: the component is constructed and not yet rendered    *)
(***************************************************************************)
NoExec == [called |-> FALSE, code |-> NoCode, deps |-> NoDeps, patterns |-> <<>>,
           bypass |-> FALSE, autoResolvePackage |-> TRUE, sandbox |-> FALSE,
           result |-> initialExecutionResult, transformed |-> FALSE,
           modules |-> NoModules, n |-> 0, out |-> NoOutput,
           awaiting |-> {}]

InitCdn ==
  /\ GLOBAL_CDN_CACHE = [p \in Pkgs |-> 0]
  /\ SANDBOX_CDN_CACHE = {}
  /\ promises = <<>>
  /\ fetches = <<>>
  /\ clears = 0
  /\ calls = <<>>

InitComponent ==
  /\ executionResult = initialExecutionResult
  /\ resolvedDependencies = dependencies
  /\ isLoading = FALSE
  /\ iframeReady = FALSE
  /\ prevCodeRef = NoCode
  /\ prevDependenciesRef = NoDeps
  /\ prevSandboxContextRef = "undefined"
  /\ iframeRef = 0
  /\ iframeRootRef = 0
  /\ iframeReactRootRef = 0
  /\ hasChanges = FALSE
  /\ phase = "init"
  /\ rendered = [code |-> code, dependencies |-> dependencies,
                 autoResolvePackage |-> autoResolvePackage, sandbox |-> sandbox,
                 onError |-> 0, n |-> 0,
                 executionResult |-> initialExecutionResult,
                 resolvedDependencies |-> dependencies,
                 isLoading |-> FALSE, iframeReady |-> FALSE]
  /\ runs = <<>>
  /\ activeRun = 0
  /\ nextFrame = 1
  /\ loadedFrames = {}
  /\ roots = <<>>
  /\ changes = 0
  /\ lastExec = NoExec
  /\ lastCommit = [autoResolvePackage |-> TRUE, issued |-> 0]
  /\ nFailures = 0
  /\ nOnError = 0
  /\ nBypass = 0

Init ==
  /\ code \in Codes
  /\ dependencies \in DepsChoices
  /\ autoResolvePackage \in BOOLEAN
  /\ sandbox \in BOOLEAN
  /\ securityPatterns = securityPatternsOf([given |-> FALSE, patterns |-> <<>>])
  /\ onError = 0
  /\ InitCdn
  /\ InitComponent

(***************************************************************************)
(* The component's steps                                                   *)
(***************************************************************************)
\* a commit in which the host passes the callback it passed before
Commit(c, d, a, s) == CommitWith(c, d, a, s, onError)

\* the first render and commit
Mount ==
  /\ phase = "init"
  /\ Commit(code, dependencies, autoResolvePackage, sandbox)
  /\ UNCHANGED changes

\* the render of queued state updates
Rerender ==
  /\ Dirty
  /\ Commit(code, dependencies, autoResolvePackage, sandbox)
  /\ UNCHANGED changes

\* the host renders the component with another prop
Quiet == phase = "live" /\ ~Dirty /\ ~Resuming
SetCode(c) ==
  /\ Quiet /\ changes < MaxChanges /\ c # code
  /\ Commit(c, dependencies, autoResolvePackage, sandbox)
  /\ changes' = changes + 1
SetDependencies(d) ==
  /\ Quiet /\ changes < MaxChanges /\ d # dependencies
  /\ Commit(code, d, autoResolvePackage, sandbox)
  /\ changes' = changes + 1
SetAutoResolvePackage ==
  /\ Quiet /\ changes < MaxChanges
  /\ Commit(code, dependencies, ~autoResolvePackage, sandbox)
  /\ changes' = changes + 1
\* the host re-renders and passes a new onError function, as a config
\* literal with an inline callback does
SetOnError ==
  /\ Quiet /\ changes < MaxChanges
  /\ CommitWith(code, dependencies, autoResolvePackage, sandbox, 1 - onError)
  /\ changes' = changes + 1
SetSandbox ==
  /\ Quiet /\ changes < MaxChanges
  /\ Commit(code, dependencies, autoResolvePackage, ~sandbox)
  /\ changes' = changes + 1

\* the iframe has sandbox="allow-scripts allow-same-origin": its window is
\* same-origin with the host, and these of its properties lead to the host
sandboxAttribute == {"allow-scripts", "allow-same-origin"}
hostHandles ==
  IF "allow-same-origin" \in sandboxAttribute
  THEN {"parent", "top", "frameElement"}
  ELSE {}
\* handleSandboxLoad: the properties it redefines to the iframe window itself
hardenedHandles == {"parent", "top"}

\* handleSandboxLoad: the load event of the iframe in the tree
handleSandboxLoad ==
  /\ phase = "live" /\ ~Resuming
  /\ iframeRef # 0 /\ iframeRef \notin loadedFrames
  /\ loadedFrames' = loadedFrames \cup {iframeRef}
  /\ iframeReady' = TRUE
  /\ UNCHANGED <<cdnVars, calls, propVars, executionResult, resolvedDependencies,
                 isLoading, refVars, phase, rendered, runs, activeRun, nextFrame,
                 roots, changes, obsVars>>

\* an import settles: the module loads or the load fails
ImportSettles ==
  \E i \in 1..Len(fetches), ok \in BOOLEAN :
    /\ ~Dirty /\ ~Resuming
    /\ fetches[i].st = "pending"
    /\ canSettle(fetches[i], ok)
    /\ setCdn(settle(Cdn, i, ok))
    /\ UNCHANGED <<clears, calls, compVars>>

\* the module script injected into a sandbox window evaluates
ModuleScriptRuns ==
  \E i \in 1..Len(fetches) :
    /\ ~Dirty /\ ~Resuming
    /\ fetches[i].st = "pending"
    /\ fetches[i].realm # HostWindow
    /\ ~fetches[i].global
    /\ setCdn(moduleScript(Cdn, i))
    /\ UNCHANGED <<clears, calls, compVars>>

\* resolveDependencies resumes after await Promise.all(resolvePromises)
RunSettles ==
  \E r \in 1..Len(runs) :
    /\ ~runs[r].done
    /\ settled(runs[r], promises)
    /\ runs' = [runs EXCEPT ![r].done = TRUE,
                            ![r].applied = writesAfterAwait(runs[r])]
    /\ IF writesAfterAwait(runs[r])
       THEN /\ resolvedDependencies' = newDepsOf(runs[r], r, promises)
            /\ isLoading' = FALSE
       ELSE UNCHANGED <<resolvedDependencies, isLoading>>
    /\ UNCHANGED <<cdnVars, calls, propVars, executionResult, iframeReady,
                   refVars, phase, rendered, activeRun, nextFrame, loadedFrames, roots,
                   changes, obsVars>>

\* handleBypassSecurity: the "Continue Anyway" button, shown with a
\* forbidden-pattern error
handleBypassSecurity ==
  /\ Quiet /\ ~isLoading
  /\ executionResult.error # NoError /\ executionResult.forbiddenPatterns
  /\ LET targetWindow == IF sandbox /\ iframeRef # 0 THEN iframeRef ELSE NoWindow
         ex == executeCode(code, resolvedDependencies, securityPatterns, TRUE,
                           autoResolvePackage, targetWindow)
         renders == sandbox /\ ex.result.Component # NoComponent
         refs1 == IF renders
                  THEN renderInSandbox(iframeRef, iframeRootRef,
                                       iframeReactRootRef, loadedFrames, roots)
                  ELSE <<iframeRootRef, iframeReactRootRef, roots>>
     IN /\ executionResult' = ex.result
        /\ prevCodeRef' = code
        /\ prevDependenciesRef' = resolvedDependencies
        /\ prevSandboxContextRef' = sandboxContextOf(sandbox)
        /\ iframeRootRef' = refs1[1]
        /\ iframeReactRootRef' = refs1[2]
        /\ roots' = refs1[3]
        /\ lastExec' = [called |-> TRUE, code |-> code,
                        deps |-> resolvedDependencies,
                        patterns |-> securityPatterns, bypass |-> TRUE,
                        autoResolvePackage |-> autoResolvePackage,
                        sandbox |-> sandbox, result |-> ex.result,
                        transformed |-> ex.transformed,
                        modules |-> modulesOf(ex, code, resolvedDependencies),
                        n |-> counted(lastExec.n),
                        out |-> outputOf(ex, code, resolvedDependencies,
                                         autoResolvePackage),
                        awaiting |-> IF activeRun # 0 /\ ~runs[activeRun].done
                                     THEN {p \in runs[activeRun].missing :
                                             promises[runs[activeRun].proms[p]].st
                                               = "pending"}
                                     ELSE {}]
        /\ nFailures' = tally(nFailures
                               + failuresOf(ex.result, renders /\ refs1[2] # 0))
  /\ nBypass' = nBypass + 1
  /\ UNCHANGED <<cdnVars, calls, propVars, resolvedDependencies, isLoading,
                 iframeReady, iframeRef, hasChanges, phase, rendered, runs,
                 activeRun, nextFrame, loadedFrames, changes,
                 lastCommit, nOnError>>

\* the updater handleExecutionError passes to setExecutionResult
afterExecutionError_keepsComponent(prev) ==
  [prev EXCEPT !.error = [kind |-> "render", names |-> {}]]
afterExecutionError(prev) ==
  [prev EXCEPT !.error = [kind |-> "render", names |-> {}],
               !.Component = NoComponent]

\* handleExecutionError: the error boundary around the inline component
\* reports that the component raised while rendering
handleExecutionError ==
  /\ Quiet /\ ~sandbox /\ ~isLoading
  /\ executionResult.error = NoError
  /\ executionResult.Component # NoComponent
  /\ executionResult.Component.throws
  /\ executionResult' = afterExecutionError(executionResult)
  /\ nOnError' = nOnError + 1
  /\ nFailures' = tally(nFailures + 1)
  /\ UNCHANGED <<cdnVars, calls, propVars, resolvedDependencies, isLoading,
                 iframeReady, refVars, reactVars, lastExec, lastCommit, nBypass>>

\* the consumer is torn down: every effect's cleanup runs
Unmount ==
  /\ Quiet /\ changes < MaxChanges
  /\ changes' = changes + 1
  /\ phase' = "unmounted"
  /\ runs' = cleanup(runs, activeRun)
  /\ activeRun' = 0
  /\ iframeRef' = 0
  /\ iframeRootRef' = 0
  /\ iframeReactRootRef' = 0
  /\ roots' = cleanupSandbox(iframeReactRootRef, roots)[2]
  /\ UNCHANGED <<cdnVars, calls, propVars, stateVars, prevCodeRef,
                 prevDependenciesRef, prevSandboxContextRef, hasChanges,
                 rendered, nextFrame, loadedFrames, obsVars>>

Next ==
  \/ Mount
  \/ Rerender
  \/ \E c \in Codes \cup {freshCopy(code)} : SetCode(c)
  \/ \E d \in DepsChoices : SetDependencies(d)
  \/ SetAutoResolvePackage
  \/ SetSandbox
  \/ SetOnError
  \/ handleSandboxLoad
  \/ ImportSettles
  \/ ModuleScriptRuns
  \/ RunSettles
  \/ handleBypassSecurity
  \/ handleExecutionError
  \/ Unmount

Spec == Init /\ [][Next]_vars

\* React runs a scheduled mount and a scheduled re-render, the continuation
\* of a settled Promise.all runs, and the sandbox iframe finishes loading
FairSpec ==
  /\ Spec
  /\ WF_vars(Mount)
  /\ WF_vars(Rerender)
  /\ WF_vars(RunSettles)
  /\ WF_vars(handleSandboxLoad)

(***************************************************************************)
(* The component with fixed props: the host never renders it again         *)
(***************************************************************************)
FixedCodes == Codes \cup {StringCode(blankFile)}
FixedDeps == DepsChoices \cup {DefaultDeps(0)}

InitFixed ==
  /\ code \in FixedCodes
  /\ dependencies \in FixedDeps
  /\ autoResolvePackage \in BOOLEAN
  /\ sandbox \in BOOLEAN
  /\ securityPatterns = securityPatternsOf([given |-> FALSE, patterns |-> <<>>])
  /\ onError = 0
  /\ InitCdn
  /\ InitComponent

\* (no module script runs: with fixed props no import is issued for a
\* sandbox window, see C26)
NextFixed ==
  \/ Mount
  \/ Rerender
  \/ handleSandboxLoad
  \/ ImportSettles
  \/ RunSettles
  \/ handleBypassSecurity
  \/ handleExecutionError

SpecFixed == InitFixed /\ [][NextFixed]_vars

\* as FairSpec, and every import settles
FairSpecFixed ==
  /\ SpecFixed
  /\ WF_vars(Mount)
  /\ WF_vars(Rerender)
  /\ WF_vars(RunSettles)
  /\ WF_vars(handleSandboxLoad)
  /\ WF_vars(ImportSettles)

(***************************************************************************)
(* The resolver on its own: any caller, any window                         *)
(***************************************************************************)
Windows == {NoWindow, HostWindow} \cup (1..MaxFrames)
\* the package the direct callers ask for
CallPkgs == {"p1"}

\* sandbox windows are numbered in the order the callers first name them
namedFrames == {calls[i].win : i \in 1..Len(calls)} \cap (1..MaxFrames)

CallResolve ==
  \E p \in CallPkgs, w \in Windows :
    /\ Len(calls) < MaxCalls
    /\ w \in 1..MaxFrames => w <= Cardinality(namedFrames) + 1
    /\ LET r == resolvePackageFromCDN(Cdn, p, w)
       IN /\ setCdn(r.cdn)
          /\ calls' = Append(calls, [pkg |-> p, win |-> w, gen |-> clears,
                                     promise |-> r.promise,
                                     st |-> r.cdn.p[r.promise].st,
                                     issued |-> Len(r.cdn.f) - Len(fetches)])
    /\ UNCHANGED <<clears, compVars>>

ClearCache ==
  /\ clears < MaxClears
  /\ clearCDNCache
  /\ UNCHANGED <<calls, compVars>>

InitCDN ==
  /\ code = StringCode(plainFile)
  /\ dependencies = EmptyDeps
  /\ autoResolvePackage = TRUE
  /\ sandbox = TRUE
  /\ securityPatterns = defaultSecurityPatterns
  /\ onError = 0
  /\ InitCdn
  /\ InitComponent

NextCDN == CallResolve \/ ImportSettles \/ ModuleScriptRuns \/ ClearCache

SpecCDN == InitCDN /\ [][NextCDN]_vars


(***************************************************************************)
(* executeCode on its own: any source, dependency map and configuration    *)
(***************************************************************************)
ExecCodes ==
  {StringCode(f) : f \in {plainFile, padFile, throwFile, identFile, valueFile,
                          arrowFile, namedOnlyFile, evalFile, storageFile,
                          wildFile, parentFile, frameElementFile}}
    \cup {ArrayCode(1, <<appFile, cookieFile>>),
          ArrayCode(2, <<cookieFile, arrowFile>>),
          ArrayCode(3, <<aFile, bFile, cFile, dFile>>),
          ArrayCode(4, <<mainFile, bothFile>>),
          ArrayCode(5, <<bareMainFile, bothFile>>),
          ArrayCode(6, <<cycAFile, cycBFile>>),
          ArrayCode(7, <<greetAppFile, greetingFile>>),
          ArrayCode(8, <<unseenAppFile, greetingFile>>)}
    \cup {ArrayCode(9, <<greetAppFile, listedGreetingFile>>)}
    \cup {ArrayCode(10, <<bothFile, mainEntryFile, plainFile>>),
          ArrayCode(11, <<greetingFile, bothFile>>)}
    \cup {StringCode(starFile), StringCode(namedImportFile), StringCode(dashFile)}
    \cup {StringCode(relFile)}

InitExec ==
  /\ code \in ExecCodes
  /\ dependencies \in DepsChoices \cup {WildDeps, DashDeps}
  /\ autoResolvePackage \in BOOLEAN
  /\ sandbox \in BOOLEAN
  /\ securityPatterns \in {securityPatternsOf(c) : c \in PatternConfigs}
  /\ onError = 0
  /\ InitCdn
  /\ InitComponent

\* one executeCode call on the inputs, with or without bypassSecurity
CallExecuteCode ==
  \E bypassSecurity \in BOOLEAN :
    /\ ~lastExec.called
    /\ LET ex == executeCode(code, dependencies, securityPatterns, bypassSecurity,
                             autoResolvePackage,
                             IF sandbox THEN 1 ELSE NoWindow)
       IN lastExec' = [called |-> TRUE, code |-> code, deps |-> dependencies,
                       patterns |-> securityPatterns, bypass |-> bypassSecurity,
                       autoResolvePackage |-> autoResolvePackage,
                       sandbox |-> sandbox, result |-> ex.result,
                       transformed |-> ex.transformed,
                       modules |-> modulesOf(ex, code, dependencies),
                       n |-> counted(lastExec.n),
                       out |-> outputOf(ex, code, dependencies, autoResolvePackage),
                       awaiting |-> {}]
    /\ UNCHANGED <<cdnVars, calls, propVars, stateVars, refVars, reactVars,
                   lastCommit, nFailures, nOnError, nBypass>>

NextExec == CallExecuteCode

SpecExec == InitExec /\ [][NextExec]_vars

(***************************************************************************)
(* Properties of the resolver (SpecCDN)                                    *)
(***************************************************************************)
\* the imports issued for promise k against a registry
importsOf(k, registry) ==
  {i \in 1..Len(fetches) : fetches[i].promise = k /\ fetches[i].registry = registry}
\* the promises created for a map, a package and a cache generation
promisesFor(scope, pkg, gen) ==
  {k \in 1..Len(promises) : /\ getCache(promises[k].win) = scope
                            /\ promises[k].pkg = pkg
                            /\ promises[k].gen = gen}
sameKey(c1, c2) ==
  c1.pkg = c2.pkg /\ getCache(c1.win) = getCache(c2.win) /\ c1.gen = c2.gen

\* C4 as stated: for any number of resolve calls with the same identifier and the
\* same realm, at most one network fetch for that identifier is issued in that
\* realm (counting every import issued, primary or fallback)
C4_AtMostOneFetch ==
  \A k \in 1..Len(promises) :
    Cardinality({i \in 1..Len(fetches) :
                   fetches[i].promise \in promisesFor(getCache(promises[k].win),
                                                      promises[k].pkg,
                                                      promises[k].gen)}) <= 1

\* C4 amended: between two clearCDNCache calls, the resolve calls for one
\* identifier and one realm share one promise (so every caller observes the same
\* outcome), that promise issues one primary import and at most one fallback
\* import, and a repeated call issues no import at all
C4_Coalescing ==
  /\ \A i, j \in 1..Len(calls) :
       sameKey(calls[i], calls[j]) =>
         /\ calls[i].promise = calls[j].promise
         /\ (i < j => calls[j].issued = 0)
  /\ \A k \in 1..Len(promises) :
       /\ Cardinality(promisesFor(getCache(promises[k].win), promises[k].pkg,
                                  promises[k].gen)) = 1
       /\ Cardinality(importsOf(k, "esm.sh")) = 1
       /\ Cardinality(importsOf(k, "jsdelivr")) <= 1
C4_Witness ==
  \E i, j \in 1..Len(calls) :
    /\ i < j /\ sameKey(calls[i], calls[j])
    /\ promises[calls[i].promise].st = "fulfilled"
    /\ \E k \in 1..Len(fetches) : fetches[k].st = "fail"

\* C17: an import that has settled, fulfilled or rejected, has left no
\* temporary global on its window; only an import still pending inside a
\* sandbox window can have one
C17_TempGlobalDeleted ==
  \A i \in 1..Len(fetches) :
    fetches[i].global => (fetches[i].st = "pending" /\ fetches[i].realm # HostWindow)
\* in one sandbox window: an import that failed on the error event, its
\* fallback that set the global and fulfilled the promise
C17_Witness ==
  \E i, j \in 1..Len(fetches) :
    /\ fetches[i].realm # HostWindow /\ fetches[i].st = "fail"
    /\ fetches[j].promise = fetches[i].promise /\ fetches[j].st = "ok"
    /\ ~fetches[i].global /\ ~fetches[j].global

\* C5: a request targeting a realm is answered with a promise created for that
\* realm, whose module (once loaded) lives in that realm; the entries of a
\* window's map belong to that window, those of the global map to the host
C5_CacheIsolation ==
  /\ \A i \in 1..Len(calls) :
       LET p == promises[calls[i].promise]
       IN /\ importRealm(p.win) = importRealm(calls[i].win)
          /\ p.st = "fulfilled" => p.module.realm = importRealm(calls[i].win)
  /\ \A e \in SANDBOX_CDN_CACHE :
       importRealm(promises[e.promise].win) = e.win /\ e.win # HostWindow
  /\ \A pk \in Pkgs :
       GLOBAL_CDN_CACHE[pk] # 0 =>
         importRealm(promises[GLOBAL_CDN_CACHE[pk]].win) = HostWindow
C5_Witness ==
  \E i, j \in 1..Len(calls) :
    /\ calls[i].pkg = calls[j].pkg
    /\ importRealm(calls[i].win) # importRealm(calls[j].win)
    /\ importRealm(calls[j].win) # HostWindow
    /\ promises[calls[i].promise].st = "fulfilled"
    /\ promises[calls[j].promise].st = "fulfilled"

\* C6: a resolution issues exactly one primary import; one fallback import at
\* most, and only after the primary import failed; nothing after the fallback;
\* it rejects exactly when both failed, with an error naming both failures
C6_FallbackProtocol ==
  \A k \in 1..Len(promises) :
    LET prim == importsOf(k, "esm.sh")
        fb == importsOf(k, "jsdelivr")
    IN /\ Cardinality(prim) = 1
       /\ Cardinality(fb) <= 1
       /\ \A i \in 1..Len(fetches) : fetches[i].promise = k => i \in prim \cup fb
       /\ \A j \in fb : \E i \in prim : i < j /\ fetches[i].st = "fail"
       /\ (\E i \in prim : fetches[i].st = "fail") => fb # {}
       /\ promises[k].st = "rejected" <=>
            (\A i \in prim \cup fb : fetches[i].st = "fail") /\ fb # {}
       /\ promises[k].st = "rejected" =>
            /\ promises[k].error.primary \in prim
            /\ promises[k].error.fallback \in fb
       /\ promises[k].st = "fulfilled" <=>
            \E i \in prim \cup fb : fetches[i].st = "ok"
C6_Witness ==
  \E k \in 1..Len(promises) :
    /\ promises[k].st = "rejected"
    /\ fetches[promises[k].error.primary].registry = "esm.sh"
    /\ fetches[promises[k].error.fallback].registry = "jsdelivr"

(***************************************************************************)
(* Properties of the component (Spec)                                      *)
(***************************************************************************)
\* the executeCode call the state remembers found a forbidden pattern
scanBlocks(e) == ~e.bypass /\ scanHits(e.code.files, e.patterns) # {}

\* C1: an executeCode call without bypass on files one of which matches an
\* active security pattern returns forbiddenPatterns = true and a null
\* component, without having called the transformer; that result is the
\* component's ExecutionResult
C1_ScanBeforeTransform ==
  (lastExec.called /\ scanBlocks(lastExec)) =>
    /\ lastExec.result.forbiddenPatterns
    /\ lastExec.result.Component = NoComponent
    /\ lastExec.result.error.kind = "forbidden"
    /\ ~lastExec.transformed
    /\ executionResult = lastExec.result
C1_Witness ==
  /\ lastExec.called /\ scanBlocks(lastExec)
  /\ \A h \in scanHits(lastExec.code.files, lastExec.patterns) : h[1] > 1
  /\ phase = "live" /\ ~Dirty

\* C2: no executeCode call is made while packages found missing for the
\* current source are still being resolved
C2_NoExecWhileResolving ==
  lastExec.called => lastExec.awaiting = {}

\* the inputs run r was started for are the component's current inputs
currentInputs(r) ==
  /\ phase = "live"
  /\ runs[r].code = code
  /\ runs[r].dependencies = dependencies
  /\ runs[r].sandbox = sandbox

appliedWithFailure(r, p) ==
  /\ r = Len(runs) /\ r > 0
  /\ runs[r].applied /\ currentInputs(r) /\ autoResolvePackage
  /\ ~Dirty /\ ~Resuming /\ ~isLoading
  /\ p \in runs[r].missing
  /\ promises[runs[r].proms[p]].st = "rejected"

\* C7: once a run in which both imports of a missing package failed has been
\* applied, the ExecutionResult carries an error naming both failures
C7_ErrorNamesBothFailures ==
  \A p \in Pkgs :
    appliedWithFailure(Len(runs), p) =>
      /\ executionResult.error # NoError
      /\ {"esm.sh", "jsdelivr"} \subseteq executionResult.error.names

\* C8: once a run in which the resolution of a package failed has been
\* applied, the resolved dependency map binds every package of the run that
\* loaded to its module and leaves the failed ones absent, and the current
\* source has been scanned and transformed with those bindings
C8_FailureDoesNotAbort ==
  \A p \in Pkgs :
    appliedWithFailure(Len(runs), p) =>
      LET run == runs[Len(runs)]
      IN /\ \A q \in run.missing :
              LET pr == promises[run.proms[q]]
              IN /\ pr.st = "fulfilled" =>
                      resolvedDependencies.map[q] = ModuleBinding(pr.module)
                 /\ pr.st = "rejected" => resolvedDependencies.map[q] = NoBinding
         /\ \A q \in Pkgs \ run.missing :
              resolvedDependencies.map[q] = dependencies.map[q]
         /\ lastExec.called
         /\ lastExec.code.files = code.files
         /\ lastExec.deps.map = resolvedDependencies.map
C8_Witness ==
  \E p, q \in Pkgs :
    /\ appliedWithFailure(Len(runs), p)
    /\ q \in runs[Len(runs)].missing
    /\ promises[runs[Len(runs)].proms[q]].st = "fulfilled"
    /\ lastExec.deps.map[q] # NoBinding

\* the executeCode call the state remembers reached the transformer with
\* auto-resolution off and an import its dependency map does not provide
unresolvedAt(e) ==
  /\ e.called /\ ~e.autoResolvePackage /\ ~scanBlocks(e)
  /\ \E i \in 1..Len(e.code.files) : e.code.files[i].imports \ keys(e.deps) # {}
importersOf(e, pkg) ==
  {e.code.files[i].name : i \in {j \in 1..Len(e.code.files) :
                                   pkg \in e.code.files[j].imports \ keys(e.deps)}}
noFetchWithoutAutoResolve ==
  ~lastCommit.autoResolvePackage => lastCommit.issued = 0

\* C9 as stated: with auto-resolution off, an import the dependency map does
\* not provide ends the call with a null component and an error that names
\* the package and the importing file, and the commit issues no import
C9_NamesPackageAndFile ==
  /\ unresolvedAt(lastExec) =>
       /\ lastExec.result.Component = NoComponent
       /\ lastExec.result.error.kind = "moduleNotFound"
       /\ \E pkg \in lastExec.result.error.names :
            /\ importersOf(lastExec, pkg) # {}
            /\ lastExec.result.error.names \cap importersOf(lastExec, pkg) # {}
  /\ noFetchWithoutAutoResolve

\* C9 amended: with auto-resolution off, an import the dependency map does
\* not provide ends the call with a null component and an error that names
\* the package, and a commit with auto-resolution off issues no import
C9_NamesPackage ==
  /\ unresolvedAt(lastExec) =>
       /\ lastExec.result.Component = NoComponent
       /\ lastExec.result.error.kind = "moduleNotFound"
       /\ \E pkg \in lastExec.result.error.names : importersOf(lastExec, pkg) # {}
       /\ lastExec.transformed
  /\ noFetchWithoutAutoResolve
C9_Witness ==
  /\ unresolvedAt(lastExec)
  /\ executionResult = lastExec.result
  /\ ~lastCommit.autoResolvePackage
  /\ fetches = <<>>

\* C12: the ExecutionResult never has both a component and an error; it has
\* neither only before the first executeCode call; and forbiddenPatterns
\* comes with a null component
C12_ComponentXorError ==
  /\ ~(executionResult.Component # NoComponent /\ executionResult.error # NoError)
  /\ (executionResult.Component = NoComponent /\ executionResult.error = NoError)
       => ~lastExec.called
  /\ executionResult.forbiddenPatterns => executionResult.Component = NoComponent
C12_Witness ==
  /\ executionResult.error.kind = "render"
  /\ executionResult.Component = NoComponent
  /\ lastExec.result.Component.kind = "entry"

\* C14: an executeCode call made by a commit scans with the active patterns
\* and rejects a matching file, whatever happened before; a call made
\* outside a commit is the bypass action, which makes one call, on the
\* current inputs, with the scan disabled
C14_BypassIsSingleRun ==
  [][lastExec' # lastExec =>
       IF rendered' # rendered \/ phase' # phase
       THEN /\ ~lastExec'.bypass
            /\ lastExec'.patterns = securityPatterns'
            /\ lastExec'.code = code'
            /\ scanHits(code'.files, securityPatterns') # {} =>
                 /\ executionResult'.forbiddenPatterns
                 /\ executionResult'.Component = NoComponent
       ELSE /\ lastExec'.bypass
            /\ nBypass' = nBypass + 1
            /\ lastExec'.code = code
            /\ lastExec'.deps = resolvedDependencies
            /\ ~executionResult'.forbiddenPatterns
            /\ executionResult' = lastExec'.result]_vars
C14_Witness ==
  /\ nBypass > 0 /\ changes > 0
  /\ lastExec.called /\ ~lastExec.bypass
  /\ executionResult.forbiddenPatterns
  /\ executionResult.Component = NoComponent

\* nothing is left to happen but another change of a prop
C15_Settled ==
  /\ Quiet /\ ~isLoading
  /\ sandbox => iframeReady
  /\ activeRun # 0 => runs[activeRun].done

\* C15: once the component has settled after a change of the source set,
\* the caller's dependency map or the realm choice, the execution result in
\* place was computed from the current source, in the current realm choice,
\* with every binding the caller supplies
C15_ChangeIsApplied ==
  (C15_Settled /\ changes > 0 /\ lastExec.called) =>
    /\ lastExec.code = code
    /\ lastExec.sandbox = sandbox
    /\ \A p \in keys(dependencies) : lastExec.deps.map[p] = dependencies.map[p]

\* C18: no step of the component removes a cache entry or replaces its
\* promise, in the global map or in a window's map; a step that creates no
\* promise (a cancellation, a recompilation, a settling import, a teardown)
\* leaves both maps as they were
C18_CacheOnlyGrows ==
  [][/\ \A p \in Pkgs : GLOBAL_CDN_CACHE[p] # 0 =>
                            GLOBAL_CDN_CACHE'[p] = GLOBAL_CDN_CACHE[p]
     /\ SANDBOX_CDN_CACHE \subseteq SANDBOX_CDN_CACHE'
     /\ \A e \in SANDBOX_CDN_CACHE' \ SANDBOX_CDN_CACHE :
          ~\E o \in SANDBOX_CDN_CACHE : o.win = e.win /\ o.pkg = e.pkg
     /\ Len(promises') = Len(promises) =>
          UNCHANGED <<GLOBAL_CDN_CACHE, SANDBOX_CDN_CACHE>>]_vars
\* a run was cancelled by a source change, and the run that replaced it
\* found the entry the cancelled run had made next to one it added itself
C18_Witness ==
  \E r1, r2 \in 1..Len(runs) : \E p, q \in Pkgs :
    /\ r1 < r2 /\ runs[r1].cancelled /\ runs[r1].code # runs[r2].code
    /\ p \in runs[r1].missing /\ p \in runs[r2].missing
    /\ runs[r1].proms[p] = runs[r2].proms[p]
    /\ q \in runs[r2].missing /\ q \notin runs[r1].missing
    /\ runs[r2].proms[q] > runs[r1].proms[p]

\* C16: every root createRoot has made is unmounted at most once; the only
\* root still mounted is the one iframeReactRootRef holds; after the
\* component is torn down, and while it runs without the sandbox, the ref
\* is null, so every root made so far has been unmounted exactly once
C16_RootUnmountedOnce ==
  /\ \A i \in 1..Len(roots) :
       roots[i].unmounts = IF i = iframeReactRootRef THEN 0 ELSE 1
  /\ (phase = "unmounted" \/ (phase = "live" /\ ~sandbox)) =>
       iframeReactRootRef = 0
\* torn down after a root was made, and a sandbox switched off after one was
C16_Witness ==
  /\ Len(roots) > 0
  /\ iframeReactRootRef = 0
  /\ rendered.sandbox
  /\ phase = "unmounted" \/ (phase = "live" /\ ~sandbox)

\* Scenario A: one file, export default function X(){..}, no imports, no
\* caller dependencies
ScenarioA == code = StringCode(plainFile) /\ dependencies = EmptyDeps
\* the entry component is in place without an error and, in the sandbox, is
\* rendered by a root mounted in the iframe of the tree
MountedA ==
  /\ phase = "live" /\ ~isLoading
  /\ executionResult.Component =
       [kind |-> "entry", throws |-> FALSE,
        realm |-> IF sandbox THEN iframeRef ELSE HostWindow]
  /\ executionResult.error = NoError
  /\ ~executionResult.forbiddenPatterns
  /\ sandbox => /\ iframeReactRootRef # 0
                /\ roots[iframeReactRootRef].node = iframeRef
                /\ roots[iframeReactRootRef].unmounts = 0

\* C19: a component constructed on Scenario A, in either realm choice,
\* eventually has the entry function mounted and a null error, unless the
\* host changes a prop or tears the component down first
C19_ScenarioAMounts ==
  (ScenarioA /\ phase = "init") ~> (MountedA \/ changes > 0)
C19_Witness == ScenarioA /\ MountedA /\ sandbox /\ changes = 0

\* C10: every terminal failure of a fatal class has had exactly one onError
\* invocation
C10_OnErrorOncePerFailure ==
  nOnError = nFailures

(***************************************************************************)
(* Properties of executeCode (SpecExec)                                    *)
(***************************************************************************)
\* the executeCode call the state remembers passed the scan and the
\* transformer, so that the generated factory was called
linked(e) ==
  /\ e.called /\ ~scanBlocks(e)
  /\ transformMultipleFiles(e.code.files, e.deps, e.autoResolvePackage) = NoError
\* the entry file's imports are all keys of the dependency map
entryLoads(e) == entryFile(e.code.files).imports \subseteq keys(e.deps)

\* C11: when the factory is called it returns without raising (the call has
\* no error); it returns the entry component whenever the entry file loads
\* and its default export is invocable, and the ErrorComponent otherwise
C11_FactoryReturnsEntry ==
  linked(lastExec) =>
    /\ lastExec.result.error = NoError
    /\ lastExec.result.Component.kind =
         IF entryLoads(lastExec) /\ entryFile(lastExec.code.files).invocable
         THEN "entry" ELSE "ErrorComponent"

\* C13: when the factory returns the ErrorComponent, the ExecutionResult of
\* that call also carries an error
C13_LinkErrorReported ==
  (linked(lastExec) /\ lastExec.result.Component.kind = "ErrorComponent") =>
    lastExec.result.error # NoError

\* C20: a call without bypass on a file that matches one of the default
\* patterns is rejected, whatever patterns the caller supplied
C20_DefaultsAlwaysApply ==
  (/\ lastExec.called /\ ~lastExec.bypass
   /\ scanHits(lastExec.code.files, defaultSecurityPatterns) # {}) =>
    /\ lastExec.result.forbiddenPatterns
    /\ lastExec.result.Component = NoComponent

\* the reading of a dependency key the documentation gives: a key supplies
\* the import source it equals, and a wildcard key every source under it
matchesKey(key, source) ==
  key = source \/ (key = WildKey /\ source = WildImport)
importSources(e) == UNION {e.code.files[i].imports : i \in 1..Len(e.code.files)}

\* C21: when every import of the source is matched by a key of the
\* dependency map, one of them through a wildcard key only, the import is
\* not missing for the resolution effect, the transformer does not reject
\* it, and the entry function is returned
C21_WildcardKeySupplies ==
  (/\ lastExec.called /\ ~scanBlocks(lastExec)
   /\ \A src \in importSources(lastExec) :
        \E k \in keys(lastExec.deps) : matchesKey(k, src)
   /\ importSources(lastExec) \ keys(lastExec.deps) # {}) =>
    /\ missingDeps(lastExec.code, lastExec.deps) = {}
    /\ lastExec.result.error = NoError
    /\ lastExec.result.Component.kind = "entry"

\* the window properties through which the source executed by the call
\* wrote to the host's document: the entry module's top-level code runs
\* inside the factory once its imports are bound
hostWrites(e) ==
  IF linked(e) /\ entryLoads(e)
  THEN entryFile(e.code.files).reaches \cap
         (IF e.sandbox THEN hostHandles \ hardenedHandles
          ELSE {"window"} \cup hostHandles)
  ELSE {}

\* C22: an execution in the sandbox leaves the host's document as it was,
\* whatever the source does with the properties of its own window: two
\* sources that differ only in that leave the same host
C22_SandboxSharesNothing ==
  (lastExec.called /\ lastExec.sandbox) => hostWrites(lastExec) = {}

\* C23: in one factory call no module's code runs twice, the cache holds
\* one instance per module that ran, and every import of a module received
\* that instance
C23_ModuleInstantiatedOnce ==
  lastExec.called =>
    LET m == lastExec.modules
    IN /\ \A i, j \in 1..Len(m.ran) : m.ran[i] = m.ran[j] => i = j
       /\ Cardinality(m.cache) = Len(m.ran)
       /\ \A g \in m.got : \E c \in m.cache :
            /\ c.name = g.from /\ c.instance = g.instance
            /\ m.ran[c.instance] = g.from
\* the diamond was loaded: B and C both received the one instance of D
C23_Witness ==
  /\ lastExec.called /\ lastExec.result.Component.kind = "entry"
  /\ \E g, h \in lastExec.modules.got :
       /\ g.importer = "B.tsx" /\ h.importer = "C.tsx"
       /\ g.from = "D" /\ h.from = "D" /\ g.instance = h.instance
  /\ Len(lastExec.modules.ran) = 4

\* C24: the object getModule returns for a module has the property default
\* when the file has a detected default export, and one property for each
\* named export of the file, so that every import of an exported name
\* receives a property that exists
C24_ExportsUniform ==
  lastExec.called =>
    /\ \A c \in lastExec.modules.cache :
         LET file == fileNamed(lastExec.code.files, c.name)
         IN /\ removeDefaultExport(file).exportedName => "default" \in c.exports
            /\ file.named \subseteq c.exports
    /\ \A g \in lastExec.modules.got : \A c \in lastExec.modules.cache :
         (c.name = g.from /\ g.name \in {"default"} \cup
                              fileNamed(lastExec.code.files, c.name).named)
           => g.name \in c.exports

\* C25: in the sandbox, a component executed for the window of the iframe
\* in the tree is rendered by a root whose mount node belongs to that iframe
C25_RenderedInActiveFrame ==
  (/\ phase = "live" /\ sandbox /\ iframeRef # 0
   /\ executionResult.Component # NoComponent
   /\ executionResult.Component.realm = iframeRef
   /\ iframeReactRootRef # 0) =>
    roots[iframeReactRootRef].node = iframeRef

\* a step of the pipeline (not of the host) can be taken
PipelineEnabled ==
  ENABLED (Mount \/ Rerender \/ handleSandboxLoad \/ ImportSettles
             \/ ModuleScriptRuns \/ RunSettles)

\* C26: a component constructed with the sandbox, autoResolvePackage and an
\* import of a package its dependency map lacks does not come to rest on
\* the loading display: while the loading flag is set, a render, the load
\* of the iframe, the settling of an import or the continuation of the run
\* is still to come
C26_LoadingEnds ==
  (/\ phase = "live" /\ changes = 0
   /\ sandbox /\ autoResolvePackage /\ missingDeps(code, dependencies) # {}
   /\ isLoading) => PipelineEnabled

\* C27: without the sandbox, the component does not come to rest with the
\* loading flag set: while it is set, a render, the settling of an import
\* or the continuation of a run is still to come
C27_LoadingFlagCleared ==
  (phase = "live" /\ ~sandbox /\ isLoading) => PipelineEnabled

\* a result has been applied and nothing is pending
Applied ==
  /\ Quiet /\ lastExec.called /\ ~isLoading /\ activeRun = 0
  /\ executionResult = lastExec.result

\* the step is a host re-render that keeps the content of the code, the
\* dependency map and the sandbox choice
SameInputsRerender ==
  /\ changes' = changes + 1 /\ phase' = "live"
  /\ code'.kind = code.kind /\ code'.files = code.files
  /\ dependencies'.map = dependencies.map
  /\ sandbox' = sandbox /\ autoResolvePackage' = autoResolvePackage

\* C28: once a result is applied, a host re-render with the same code
\* content, dependency map and sandbox choice (a new array, a new onError
\* function) does not call executeCode and leaves the result in place
C28_NoReexecution ==
  [][(Applied /\ SameInputsRerender) =>
       (lastExec'.n = lastExec.n /\ executionResult' = executionResult)]_vars

\* C29: with fixed props the component comes to rest: from some point on
\* no state update is waiting for a render
C29_Quiesces == <>[](phase = "live" /\ ~Dirty)

\* C30: every binding of the dependency map that the latest execution
\* passed to the factory is one the caller supplied or a module resolved
\* in the realm the factory ran in
C30_BindingsOfRealm ==
  (lastExec.called /\ lastExec.result.Component # NoComponent) =>
    \A p \in keys(lastExec.deps) :
      \/ lastExec.deps.map[p].origin = "caller"
      \/ lastExec.deps.map[p].realm = lastExec.result.Component.realm

\* C31: with auto-resolution, the identifiers the resolution effect submits
\* for the source and dependency map of a transform call are the import
\* sources the transformer took for external and not provided
C31_SubmittedEqualsExternal ==
  (lastExec.called /\ lastExec.transformed /\ lastExec.autoResolvePackage
   /\ lastExec.result.error = NoError) =>
    missingDeps(lastExec.code, lastExec.deps) = lastExec.out.toResolve

\* C32: in the factory call of an execution no module definition is
\* entered twice, also when the local imports form a cycle
C32_NoModuleEnteredTwice ==
  lastExec.called =>
    \A i, j \in 1..Len(lastExec.modules.entered) :
      i # j => lastExec.modules.entered[i] # lastExec.modules.entered[j]

\* the local imports of the source of the latest call: file and position
localImports(e) ==
  {<<i, j>> \in (1..Len(e.code.files)) \X (1..MaxImports) :
     j <= Len(e.code.files[i].locals)}

\* C33: in a transform call that returned, every specifier of an import of
\* a file of the set is rewritten to read getModule(<normalized name>) and
\* there the property default (default import) or the imported name (named
\* import), also when the imported file's ExportInfo does not hold the
\* name; and the ExportInfo of a file holds every name it declares exported
C33_LocalImportRewritten ==
  (lastExec.called /\ lastExec.transformed /\ lastExec.result.error = NoError) =>
    /\ \A ij \in localImports(lastExec) :
         LET f == lastExec.code.files[ij[1]]
             imp == f.locals[ij[2]]
         IN \E r \in lastExec.out.rewrites :
              /\ r.importer = f.name /\ r.from = imp.from /\ r.name = imp.name
              /\ r.reads.call = "getModule"
              /\ r.reads.arg = normalizeFilename(imp.from)
              /\ r.reads.prop = imp.name
    /\ \A i \in 1..Len(lastExec.code.files) :
         lastExec.code.files[i].named \subseteq
           lastExec.out.exportInfo[lastExec.code.files[i].name].namedExports
C33_Witness ==
  /\ lastExec.called /\ lastExec.result.error = NoError
  /\ lastExec.code = ArrayCode(8, <<unseenAppFile, greetingFile>>)
  /\ "Greeting" \in lastExec.out.exportInfo["Greeting.tsx"].namedExports
  /\ \E r \in lastExec.out.rewrites :
       r.name = "Farewell" /\ r.reads.arg = "Greeting" /\ r.reads.prop = "Farewell"
  /\ lastExec.out.warnings # {}

\* the specifiers, in the source of the latest call, of imports from a key
\* of the dependency map passed to it
providedSpecs(e) ==
  {<<i, sp>> \in (1..Len(e.code.files)) \X
                  UNION {externalSpecs(e.code.files[l]) : l \in 1..Len(e.code.files)} :
     sp \in externalSpecs(e.code.files[i]) /\ sp.from \in keys(e.deps)}

\* C34: in a transform call that returned, every specifier of an import
\* from a key d of the dependency map has a declaration that reads the one
\* variable declared for d: the variable itself for a default import, its
\* property n for a named import n
C34_ProvidedImportBound ==
  (lastExec.called /\ lastExec.transformed
   /\ transformMultipleFiles(lastExec.code.files, lastExec.deps,
                             lastExec.autoResolvePackage) = NoError) =>
    \A isp \in providedSpecs(lastExec) :
      \E r \in lastExec.out.rewrites :
        /\ r.importer = lastExec.code.files[isp[1]].name
        /\ r.from = isp[2].from /\ r.name = isp[2].name
        /\ r.reads.prop = (IF isp[2].name = "default" THEN "" ELSE isp[2].name)
        /\ \A v \in lastExec.out.dependencyVars :
             v.var = r.reads.arg <=> v.key = isp[2].from

\* C35: the variable names declared for the keys of the dependency map of
\* a transform call are pairwise different
C35_SanitizationInjective ==
  (lastExec.called /\ lastExec.transformed) =>
    \A v, w \in lastExec.out.dependencyVars : v.var = w.var => v.key = w.key

\* the earlier calls for the same package and the same cache since the
\* latest clearCDNCache
earlierCalls(p, w) ==
  {i \in 1..Len(calls) : /\ calls[i].pkg = p
                         /\ getCache(calls[i].win) = getCache(w)
                         /\ calls[i].gen = clears}
\* a resolve call returns in this step
Resolved == Len(calls') = Len(calls) + 1
latestCall == calls'[Len(calls')]

\* C37: a resolve call for a package whose earlier resolution in the same
\* cache was rejected, with no clearCDNCache since, issues no import and
\* returns the rejected promise with its error; a resolve call with no
\* earlier call since the latest clearCDNCache issues a fresh import
C37_FailureCached ==
  [][Resolved =>
       /\ \A i \in earlierCalls(latestCall.pkg, latestCall.win) :
            promises[calls[i].promise].st = "rejected" =>
              /\ latestCall.issued = 0 /\ fetches' = fetches
              /\ latestCall.promise = calls[i].promise
              /\ promises'[latestCall.promise].st = "rejected"
              /\ promises'[latestCall.promise].error
                   = promises[calls[i].promise].error
       /\ earlierCalls(latestCall.pkg, latestCall.win) = {} =>
            /\ latestCall.issued = 1
            /\ promises'[latestCall.promise].st = "pending"]_vars
\* a call was answered with a rejected promise and, after clearCDNCache,
\* another call for the same package was made
C37_Witness ==
  \E i \in 1..Len(calls) : calls[i].st = "rejected" /\ calls[i].issued = 0
C37_WitnessCleared ==
  \E i, j \in 1..Len(calls) :
    /\ i < j /\ calls[i].pkg = calls[j].pkg
    /\ getCache(calls[i].win) = getCache(calls[j].win)
    /\ promises[calls[i].promise].st = "rejected"
    /\ calls[j].gen > calls[i].gen /\ calls[j].issued = 1

\* C36: in a transform call that returned, the names each module
\* definition copies onto its exports object are the named exports recorded
\* for the file in the first pass, so that a named local import without a
\* warning reads a name the module definition copies
C36_ExportDetectionsAgree ==
  (lastExec.called /\ lastExec.transformed
   /\ transformMultipleFiles(lastExec.code.files, lastExec.deps,
                             lastExec.autoResolvePackage) = NoError) =>
    /\ \A n \in DOMAIN lastExec.out.exportInfo :
         lastExec.out.copied[n] = lastExec.out.exportInfo[n].namedExports
    /\ \A r \in lastExec.out.rewrites :
         (r.reads.call = "getModule" /\ r.name # "default"
          /\ \A w \in lastExec.out.warnings :
               ~(w.importer = r.importer /\ w.from = r.from /\ w.name = r.name))
           => r.name \in lastExec.out.copied[moduleOf(lastExec.code.files, r.from).name]

\* the position of the first file flagged isEntry, else the first position
firstFlagged(files) ==
  IF \E i \in 1..Len(files) : files[i].isEntry
  THEN CHOOSE i \in 1..Len(files) :
         files[i].isEntry /\ \A j \in 1..Len(files) : files[j].isEntry => i <= j
  ELSE 1

\* C38: the first module the factory asks getModule for is the normalized
\* name of the first file flagged isEntry, or of the first file when none is
\* flagged, whatever the other files are
C38_EntryIsFirstFlagged ==
  (lastExec.called /\ lastExec.modules.entered # <<>>) =>
    lastExec.modules.entered[1] =
      normalizeFilename(
        lastExec.code.files[firstFlagged(lastExec.code.files)].name)
\* a call whose entry is the second of three files, with a third one
\* flagged as well
C38_Witness ==
  /\ lastExec.called
  /\ lastExec.code.files = <<bothFile, mainEntryFile, plainFile>>
  /\ lastExec.modules.entered = <<"Main">>
  /\ lastExec.result.Component.kind = "entry"
\* a call with no file flagged
C38_WitnessNoFlag ==
  /\ lastExec.called
  /\ lastExec.code.files = <<greetingFile, bothFile>>
  /\ lastExec.modules.entered = <<"Greeting">>

\* C39: in a transform call that returned, the export information present
\* when a file's imports are rewritten covers every file of the set, so a
\* named local import is warned about exactly when the imported file,
\* wherever it stands in the set, does not export the name
C39_RewriteSeesAllExports ==
  (lastExec.called /\ lastExec.transformed
   /\ transformMultipleFiles(lastExec.code.files, lastExec.deps,
                             lastExec.autoResolvePackage) = NoError) =>
    LET files == lastExec.code.files
    IN /\ \A i \in 1..Len(files) :
            lastExec.out.seen[i] = {files[k].name : k \in 1..Len(files)}
       /\ \A i \in 1..Len(files) : \A j \in 1..Len(files[i].locals) :
            files[i].locals[j].name # "default" =>
              (([importer |-> files[i].name, from |-> files[i].locals[j].from,
                 name |-> files[i].locals[j].name] \in lastExec.out.warnings)
               <=> files[i].locals[j].name \notin
                     (moduleOf(files, files[i].locals[j].from).named
                      \cup moduleOf(files, files[i].locals[j].from).listed))
\* the importing file stands before the file it imports a name from
C39_Witness ==
  /\ lastExec.called
  /\ lastExec.code.files = <<greetAppFile, greetingFile>>
  /\ lastExec.out.seen = <<{"App.tsx", "Greeting.tsx"}, {"App.tsx", "Greeting.tsx"}>>
  /\ lastExec.out.warnings = {}
  /\ lastExec.result.error = NoError

\* the dependency objects a caller can pass, and the ones the component
\* holds
callerObjects ==
  DepsChoices \cup {WildDeps, DashDeps} \cup {DefaultDeps(k) : k \in 0..(DefaultIds - 1)}
heldObjects ==
  {dependencies, resolvedDependencies, lastExec.deps}
    \cup {runs[r].dependencies : r \in 1..Len(runs)}

====
